---- MODULE Spec2Model ----
(***************************************************************************)
(* Tutorialize-Anything: the session/frame state model and the media       *)
(* pipeline (image stage, audio stage), the viewer's rephrase handling and  *)
(* the storyboard reply parsing of the create endpoint.                     *)
(*                                                                          *)
(* The specifications share the variables:                                 *)
(*   Spec            the image stage and the audio stage running against    *)
(*                   one session of the store, interleaved at every await;  *)
(*   SpecSequential  the stages one after the other, from every key order;  *)
(*   SpecViewer      the viewer page (load, previous, next, rephrase) and   *)
(*                   the rephrase writes to the store;                      *)
(*   SpecCreate      the create endpoint parsing the text-generation reply; *)
(*   SpecSubmit      the home page's submission: create, image stage,       *)
(*                   audio stage, viewer;                                   *)
(*   SpecParsed      the stages on storyboards as JSON.parse leaves them;   *)
(*   SpecRephraseAudio, SpecRephraseImage                                   *)
(*                   one stage while frames are rephrased;                  *)
(*   SpecRequests    the three endpoints from the verb and the body of a    *)
(*                   request on, served one after the other;                *)
(*   SpecStyle       create requests of every style;                        *)
(*   SpecFair        one run of each stage under weak fairness of its       *)
(*                   continuation.                                          *)
(***************************************************************************)
EXTENDS Integers, Sequences, FiniteSets, TLC

VARIABLES
    sessions,   \* session-storage: session id -> session data or NoSession
    img,        \* the running (or last) image-stage request: its locals
    aud,        \* the running (or last) audio-stage request: its locals
    imgRes,     \* response of the image-stage request, NoResponse while none
    audRes,     \* response of the audio-stage request, NoResponse while none
    viewer,     \* TutorialViewer component state and its rephrase request
    create,     \* the create request of /api/tutorial and its response
    home        \* HomePage component state and the position of handleSubmit

vars == <<sessions, img, aud, imgRes, audRes, viewer, create, home>>

----------------------------------------------------------------------------
(* Bounds of the model *)

\* largest number of storyboard steps
MaxSteps == 2

\* largest number of tokens of a text-generation reply
MaxReplyLen == 4

----------------------------------------------------------------------------
(* Values *)

SessionIds == {"s1", "s2"}

NoSession == [absent |-> "session"]
NoFrame == [absent |-> "frame"]
NoResponse == [absent |-> "response"]
NoIndex == -1

\* the value of a URL field that was written as undefined
Undefined == <<>>

\* Storyboard keys are strings; a key is the sequence of its UTF-16 code units.
\* The pool stands for "step1", "step10", "step2" (the common prefix "step"
\* is left out, the digits are the code units).
KeyPool == {<<1>>, <<1, 0>>, <<2>>}

\* The text the generation gave a key: the empty string or a text of its own.
KeyText(key) ==
    IF key = <<1>> THEN "one" ELSE IF key = <<2>> THEN "two" ELSE "ten"

RephrasedText == "rephrased"

\* A storyboard value that is no string (JSON.parse gives whatever the reply
\* holds: a number, an object); the tag stands for such a value.
NotAString == "#3"
IsString(value) == value # NotAString

Min(a, b) == IF a < b THEN a ELSE b
Max(a, b) == IF a < b THEN b ELSE a

----------------------------------------------------------------------------
(* Object.keys(storyboard).sort() *)

\* A storyboard (session.steps) is a JS object: its members in insertion order.
ObjectKeys(steps) == [p \in 1..Len(steps) |-> steps[p].key]

\* storyboard[key]
Lookup(steps, key) ==
    LET p == CHOOSE q \in 1..Len(steps) : steps[q].key = key IN steps[p].text

\* a < b in the order of Array.prototype.sort without a comparator: by code
\* units, a proper prefix first.
RECURSIVE LexLess(_, _)
LexLess(a, b) ==
    IF Len(b) = 0 THEN FALSE
    ELSE IF Len(a) = 0 THEN TRUE
    ELSE IF Head(a) # Head(b) THEN Head(a) < Head(b)
    ELSE LexLess(Tail(a), Tail(b))

RECURSIVE InsertSorted(_, _)
InsertSorted(key, sorted) ==
    IF sorted = <<>> THEN <<key>>
    ELSE IF LexLess(key, Head(sorted)) THEN <<key>> \o sorted
    ELSE <<Head(sorted)>> \o InsertSorted(key, Tail(sorted))

RECURSIVE SortKeys(_)
SortKeys(keys) ==
    IF keys = <<>> THEN <<>> ELSE InsertSorted(Head(keys), SortKeys(Tail(keys)))

UnsortedKeys(steps) == ObjectKeys(steps)

\* const frameKeys = Object.keys(storyboard).sort();
FrameKeys(steps) == SortKeys(ObjectKeys(steps))

\* storyboard[frameKeys[i]] for the 0-based index i
StepText(steps, i) == Lookup(steps, FrameKeys(steps)[i + 1])

----------------------------------------------------------------------------
(* session-storage (lib/session-storage is not in the source tree) *)

\* getSession(id)
getSession(store, id) == store[id]

MergeFrameReplacing(old, partial) == partial

\* merge of a partial frame into a frame slot: a field-level upsert
MergeFrame(old, partial) ==
    IF old = NoFrame THEN partial
    ELSE [f \in (DOMAIN old) \cup (DOMAIN partial) |->
            IF f \in DOMAIN partial THEN partial[f] ELSE old[f]]

\* frames[index] = merge(frames[index], partial), the array growing with holes
SetFrame(frames, index, partial) ==
    [j \in 1..Max(Len(frames), index + 1) |->
        IF j = index + 1
        THEN MergeFrame(IF j <= Len(frames) THEN frames[j] ELSE NoFrame, partial)
        ELSE IF j <= Len(frames) THEN frames[j] ELSE NoFrame]

\* an update that reaches the frames of every session
updateFrameOfAll(store, id, index, partial) ==
    [s \in DOMAIN store |->
        IF store[s] = NoSession THEN store[s]
        ELSE [store[s] EXCEPT !.frames = SetFrame(@, index, partial)]]

\* updateFrame(id, index, partial): nothing for an unknown id
updateFrame(store, id, index, partial) ==
    IF store[id] = NoSession THEN store
    ELSE [store EXCEPT ![id].frames = SetFrame(@, index, partial)]

\* session.frames[i] (undefined past the end and in a hole)
FrameAt(frames, i) == IF i + 1 \in 1..Len(frames) THEN frames[i + 1] ELSE NoFrame

----------------------------------------------------------------------------
(* Blob URLs *)

\* a key numbered from zero
PublicUrlZeroBased(sid, i, ext) == <<sid, i, ext>>

\* `https://${bucketName}.s3.amazonaws.com/${sessionId}/frame${i + 1}.${ext}`
PublicUrl(sid, i, ext) == <<sid, i + 1, ext>>

\* the URL a rephrase stores for frame i
RephraseUrl(sid, i) == <<sid, i + 1, "rephrase">>

----------------------------------------------------------------------------
(* Storyboards and the initial store *)

\* The storyboards of at most MaxSteps steps: distinct keys in any insertion
\* order, each with an empty text or the text of its key.
Storyboards ==
    UNION {
        { sb \in [1..n -> [key : KeyPool, text : {"", "one", "two", "ten"}]] :
            /\ \A p, q \in 1..n : p # q => sb[p].key # sb[q].key
            /\ \A p \in 1..n : sb[p].text \in {"", KeyText(sb[p].key)} }
        : n \in 1..MaxSteps }

\* createSession(sessionId, { steps: storyboard, frames: [], url, style })
NewSession(storyboard, url, style) ==
    [steps |-> storyboard, frames |-> <<>>, url |-> url, style |-> style]

StepCount(session) == Len(session.steps)

IdleImage ==
    [pc |-> "idle", sid |-> "s1", variant |-> "pollinations", i |-> 0,
     attempt |-> 0, imageUrls |-> <<>>, rl |-> NoIndex]

IdleAudio ==
    [pc |-> "idle", sid |-> "s1", i |-> 0, audioUrls |-> <<>>, rl |-> NoIndex]

\* TutorialViewer before the router has the session id: the useState values,
\* no rephrase request (req), nothing alerted
IdleViewer ==
    [pc |-> "unmounted", sessionId |-> "", frames |-> <<>>, currentIndex |-> 0,
     loadingFrame |-> FALSE, loading |-> TRUE, error |-> "",
     req |-> "none", reqIndex |-> NoIndex, resp |-> NoResponse, alert |-> ""]

IdleCreate == [pc |-> "idle", reply |-> <<>>, res |-> NoResponse]

\* HomePage as mounted: the useState values, handleSubmit not running, no
\* navigation
IdleHome ==
    [pc |-> "idle", targetURL |-> "", loading |-> FALSE, error |-> "",
     sessionId |-> "", pushed |-> ""]

\* The storyboards the pipeline specification starts from: keys inserted in
\* descending order, and no empty text except possibly the first inserted.
PipelineStoryboards ==
    { sb \in Storyboards :
        /\ \A p \in 1..Len(sb) - 1 : LexLess(sb[p + 1].key, sb[p].key)
        /\ \A p \in 2..Len(sb) : sb[p].text # "" }

\* The store after one successful create request; nothing is running.
InitFrom(storyboards) ==
    /\ \E sb \in storyboards :
        sessions = [id \in SessionIds |->
                      IF id = "s1" THEN NewSession(sb, "url", "explain5")
                      ELSE NoSession]
    /\ img = IdleImage
    /\ aud = IdleAudio
    /\ imgRes = NoResponse
    /\ audRes = NoResponse
    /\ viewer = IdleViewer
    /\ create = IdleCreate
    /\ home = IdleHome

Init == InitFrom(PipelineStoryboards)

----------------------------------------------------------------------------
(* Image stage: handler of image-gen *)

\* the handlers of the two image-generation back ends
ImageVariants == {"pollinations", "gemini"}

\* what one generation attempt can end in; only the Gemini handler sees a
\* reply without image data
GenOutcomes(variant) ==
    IF variant = "gemini" THEN {"ok", "noData", "error", "rateLimit"}
    ELSE {"ok", "error", "rateLimit"}

\* for (let attempt = 0; attempt < 3; attempt++)
MaxAttempts == 3

\* const isRateLimitError = genErr?.message?.includes(...)
isRateLimitError(outcome) == outcome = "rateLimit"

GenFailureEffectThrowing(rateLimited, attempt) ==
    IF rateLimited THEN "skipRemaining"
    ELSE IF attempt = 2 THEN "throw" ELSE "retry"

GenFailureEffectSkipAtOnce(rateLimited, attempt) ==
    IF rateLimited THEN "skipRemaining" ELSE "skipStep"

GenFailureEffectNoRateLimit(rateLimited, attempt) ==
    IF attempt = 2 THEN "skipStep" ELSE "retry"

\* the catch block of one attempt: a rate limit skips all remaining images,
\* the third failure skips the step, any other failure waits and retries
GenFailureEffect(rateLimited, attempt) ==
    IF rateLimited THEN "skipRemaining"
    ELSE IF attempt = 2 THEN "skipStep" ELSE "retry"

\* a pre-initialisation that leaves the frames that exist alone
RECURSIVE ImagePreInitIfMissing(_, _, _)
ImagePreInitIfMissing(store, sid, n) ==
    IF n = 0 THEN store
    ELSE LET before == ImagePreInitIfMissing(store, sid, n - 1) IN
         IF FrameAt(getSession(store, sid).frames, n - 1) = NoFrame
         THEN updateFrame(before, sid, n - 1,
                          [text |-> StepText(store[sid].steps, n - 1)])
         ELSE before

\* the first loop: updateFrame(sessionId, i, { text: description }) for all i
RECURSIVE ImagePreInit(_, _, _)
ImagePreInit(store, sid, n) ==
    IF n = 0 THEN store
    ELSE LET before == ImagePreInit(store, sid, n - 1) IN
         updateFrame(before, sid, n - 1,
                     [text |-> StepText(store[sid].steps, n - 1)])

ImageFramePayloadClearingAudio(description, publicUrl) ==
    [text |-> description, imageUrl |-> publicUrl, audioUrl |-> Undefined]

\* { text: description, imageUrl: publicUrl }
ImageFramePayload(description, publicUrl) ==
    [text |-> description, imageUrl |-> publicUrl]

ImageWriteIndexOneBased(i) == i + 1

\* the frame index of the image stage's updateFrame for loop index i
ImageWriteIndex(i) == i

StageResponseOfSucceeded(urls, total) ==
    [status |-> 200, urls |-> urls, total |-> Len(urls)]

\* res.status(200).json({ images, message: `Generated ${a}/${b} images` })
StageResponse(urls, total) ==
    [status |-> 200, urls |-> urls, total |-> total]

ErrorResponse(status) == [status |-> status]

NextIndexSkipping(i) == i + 2

NextIndexStaying(i) == i

\* i++ of the step loops
NextIndex(i) == i + 1

\* the outer catch: res.status(500)
ImageThrow(run) ==
    /\ img' = [IdleImage EXCEPT !.rl = run.rl]
    /\ imgRes' = ErrorResponse(500)

\* description.match(...) while the prompt is built: a TypeError when the
\* description is no string; the Gemini handler only interpolates it
PromptThrows(variant, description) ==
    variant = "pollinations" /\ ~IsString(description)

\* The loop goes on with index next: the next step's prompt and first
\* attempt, or the response once the index is past the last step.
ImageGoOn(run, next, n) ==
    IF next < n
    THEN IF PromptThrows(run.variant,
                         StepText(getSession(sessions, run.sid).steps, next))
         THEN ImageThrow(run)
         ELSE /\ img' = [run EXCEPT !.pc = "gen", !.i = next, !.attempt = 0]
              /\ imgRes' = NoResponse
    ELSE /\ img' = [IdleImage EXCEPT !.rl = run.rl]
         /\ imgRes' = StageResponse(run.imageUrls, n)

TakesDelayAlways(i, n) == TRUE

\* if (imageData && i < frameKeys.length - 1): the delay after a generation
\* that gave an image, unless the step is the last
TakesDelay(i, n) == i < n - 1

\* POST image-gen { sessionId }: lookup, pre-initialisation, first attempt
ImageStart(sid, variant) ==
    /\ img.pc = "idle"
    /\ IF getSession(sessions, sid) = NoSession
       THEN /\ imgRes' = ErrorResponse(400)
            /\ UNCHANGED <<sessions, img>>
       ELSE LET n == StepCount(getSession(sessions, sid)) IN
            /\ sessions' = ImagePreInit(sessions, sid, n)
            /\ ImageGoOn([IdleImage EXCEPT !.sid = sid, !.variant = variant], 0, n)
    /\ UNCHANGED <<aud, audRes, viewer, create, home>>

\* the awaited generation call of attempt img.attempt returns or throws
ImageGenReturns(outcome) ==
    /\ img.pc = "gen"
    /\ outcome \in GenOutcomes(img.variant)
    /\ LET n == StepCount(getSession(sessions, img.sid)) IN
       CASE outcome = "ok" ->
              \* break; then the delay before the upload unless this is the last step
              /\ img' = [img EXCEPT !.pc = IF TakesDelay(img.i, n) THEN "delay"
                                           ELSE "upload"]
              /\ UNCHANGED imgRes
         [] outcome = "noData" ->
              \* no exception: the attempt loop goes on without a wait
              IF img.attempt + 1 < MaxAttempts
              THEN /\ img' = [img EXCEPT !.attempt = @ + 1]
                   /\ UNCHANGED imgRes
              ELSE ImageGoOn(img, NextIndex(img.i), n)
         [] OTHER ->
              \* the catch block; run.rl records the step of a rate-limit failure
              LET rateLimited == isRateLimitError(outcome)
                  run == [img EXCEPT !.rl = IF rateLimited THEN img.i ELSE @]
                  effect == GenFailureEffect(rateLimited, img.attempt)
              IN
              CASE effect = "skipRemaining" ->
                     \* i = frameKeys.length; break; continue
                     ImageGoOn(run, NextIndex(n), n)
                [] effect = "skipStep" -> ImageGoOn(run, NextIndex(img.i), n)
                [] effect = "retry" ->
                     /\ img' = [run EXCEPT !.pc = "retryWait"]
                     /\ UNCHANGED imgRes
                [] OTHER -> ImageThrow(run)
    /\ UNCHANGED <<sessions, aud, audRes, viewer, create, home>>

\* await new Promise(resolve => setTimeout(resolve, 2000)) before the retry
ImageRetryWaitDone ==
    /\ img.pc = "retryWait"
    /\ img' = [img EXCEPT !.pc = "gen", !.attempt = @ + 1]
    /\ UNCHANGED <<sessions, aud, imgRes, audRes, viewer, create, home>>

\* the delay between successful requests is over
ImageDelayDone ==
    /\ img.pc = "delay"
    /\ img' = [img EXCEPT !.pc = "upload"]
    /\ UNCHANGED <<sessions, aud, imgRes, audRes, viewer, create, home>>

\* the awaited S3 put returns (ok) or throws
ImageUploadReturns(ok) ==
    /\ img.pc = "upload"
    /\ LET n == StepCount(getSession(sessions, img.sid))
           publicUrl == PublicUrl(img.sid, img.i, "png")
           description == StepText(getSession(sessions, img.sid).steps, img.i)
       IN
       IF ok
       THEN /\ sessions' = updateFrame(sessions, img.sid, ImageWriteIndex(img.i),
                                       ImageFramePayload(description, publicUrl))
            /\ ImageGoOn([img EXCEPT !.imageUrls = Append(@, publicUrl)],
                         NextIndex(img.i), n)
       ELSE /\ sessions' = sessions
            /\ ImageGoOn(img, NextIndex(img.i), n)
    /\ UNCHANGED <<aud, audRes, viewer, create, home>>

----------------------------------------------------------------------------
(* Audio stage: handler of audio-gen *)

\* what the speech-synthesis call can end in: a 2xx reply, a non-2xx reply
\* (a 429 among them) or a thrown network error
TtsOutcomes == {"ok", "error", "rateLimit", "throw"}

\* the synthesis call of a step is in no attempt loop: when it returns, one
\* attempt has been made for the step
AudioAttemptsMade == 1

AudioPreInitNone(store, sid, n) == store

\* the first loop: if (!existingFrame) updateFrame(sessionId, i, { text })
RECURSIVE AudioPreInit(_, _, _)
AudioPreInit(store, sid, n) ==
    IF n = 0 THEN store
    ELSE LET before == AudioPreInit(store, sid, n - 1)
             existingFrame == FrameAt(getSession(store, sid).frames, n - 1)
         IN  IF existingFrame = NoFrame
             THEN updateFrame(before, sid, n - 1,
                              [text |-> StepText(store[sid].steps, n - 1)])
             ELSE before

\* const existingFrame = session.frames[i] || { text };
ExistingOrText(frames, i, text) ==
    IF FrameAt(frames, i) = NoFrame THEN [text |-> text] ELSE FrameAt(frames, i)

AudioFramePayloadWholeFrame(existingFrame, publicUrl, text) ==
    [text |-> text, imageUrl |-> Undefined, audioUrl |-> publicUrl]

\* { ...existingFrame, audioUrl: publicUrl, text: text }
AudioFramePayload(existingFrame, publicUrl, text) ==
    MergeFrame(existingFrame, [audioUrl |-> publicUrl, text |-> text])

\* every way a step ends (continue, the catch, the end of the body) goes on
\* with the next index
AudioGoOn(run, n) ==
    IF NextIndex(run.i) < n
    THEN /\ aud' = [run EXCEPT !.pc = "tts", !.i = NextIndex(@)]
         /\ audRes' = NoResponse
    ELSE /\ aud' = [IdleAudio EXCEPT !.rl = run.rl]
         /\ audRes' = StageResponse(run.audioUrls, n)

\* POST audio-gen { sessionId }: lookup, pre-initialisation, first call
AudioStart(sid) ==
    /\ aud.pc = "idle"
    /\ IF getSession(sessions, sid) = NoSession
       THEN /\ audRes' = ErrorResponse(400)
            /\ UNCHANGED <<sessions, aud>>
       ELSE LET n == StepCount(getSession(sessions, sid)) IN
            /\ sessions' = AudioPreInit(sessions, sid, n)
            /\ AudioGoOn([IdleAudio EXCEPT !.sid = sid, !.i = -1], n)
    /\ UNCHANGED <<img, imgRes, viewer, create, home>>

\* the awaited speech-synthesis call returns or throws
AudioTtsReturns(outcome) ==
    /\ aud.pc = "tts"
    /\ outcome \in TtsOutcomes
    /\ LET n == StepCount(getSession(sessions, aud.sid)) IN
       IF outcome = "ok"
       THEN /\ aud' = [aud EXCEPT !.pc = "upload"]
            /\ UNCHANGED audRes
       ELSE \* aud.rl records the step of the latest rate-limit failure
            AudioGoOn([aud EXCEPT !.rl = IF outcome = "rateLimit" THEN aud.i ELSE @], n)
    /\ UNCHANGED <<sessions, img, imgRes, viewer, create, home>>

\* the awaited S3 put returns (ok) or throws
AudioUploadReturns(ok) ==
    /\ aud.pc = "upload"
    /\ LET session == getSession(sessions, aud.sid)
           n == StepCount(session)
           text == StepText(session.steps, aud.i)
           publicUrl == PublicUrl(aud.sid, aud.i, "mp3")
           existingFrame == ExistingOrText(session.frames, aud.i, text)
       IN
       IF ok
       THEN /\ sessions' = updateFrame(sessions, aud.sid, aud.i,
                               AudioFramePayload(existingFrame, publicUrl, text))
            /\ AudioGoOn([aud EXCEPT !.audioUrls = Append(@, publicUrl)], n)
       ELSE /\ sessions' = sessions
            /\ AudioGoOn(aud, n)
    /\ UNCHANGED <<img, imgRes, viewer, create, home>>

----------------------------------------------------------------------------
(* The pipeline specification: the two stages, interleaved at every await *)

ImageStep ==
    \/ \E outcome \in {"ok", "noData", "error", "rateLimit"} : ImageGenReturns(outcome)
    \/ ImageRetryWaitDone
    \/ ImageDelayDone
    \/ \E ok \in BOOLEAN : ImageUploadReturns(ok)

AudioStep ==
    \/ \E outcome \in TtsOutcomes : AudioTtsReturns(outcome)
    \/ \E ok \in BOOLEAN : AudioUploadReturns(ok)

Next ==
    \/ \E sid \in SessionIds, variant \in ImageVariants : ImageStart(sid, variant)
    \/ ImageStep
    \/ \E sid \in SessionIds : AudioStart(sid)
    \/ AudioStep

Spec == Init /\ [][Next]_vars

----------------------------------------------------------------------------
(* The stages one after the other, from every insertion order of the keys *)

\* every insertion order, each key with its own text
KeyOrderStoryboards ==
    { sb \in Storyboards : \A p \in 1..Len(sb) : sb[p].text # "" }

InitSequential == InitFrom(KeyOrderStoryboards)

NextSequential ==
    \/ /\ aud.pc = "idle"
       /\ \E sid \in SessionIds, variant \in ImageVariants : ImageStart(sid, variant)
    \/ ImageStep
    \/ /\ img.pc = "idle"
       /\ \E sid \in SessionIds : AudioStart(sid)
    \/ AudioStep

SpecSequential == InitSequential /\ [][NextSequential]_vars

----------------------------------------------------------------------------
(* The stages on the storyboards the create endpoint can store *)

\* Storyboards as JSON.parse leaves them: keys in ascending insertion order,
\* each value the text of its key or a value that is no string.
ParsedStoryboards ==
    UNION {
        { sb \in [1..n -> [key : KeyPool, text : {"one", "two", "ten", NotAString}]] :
            /\ \A p \in 1..n - 1 : LexLess(sb[p].key, sb[p + 1].key)
            /\ \A p \in 1..n : sb[p].text \in {KeyText(sb[p].key), NotAString} }
        : n \in 1..MaxSteps }

InitParsed == InitFrom(ParsedStoryboards)

SpecParsed == InitParsed /\ [][Next]_vars

----------------------------------------------------------------------------
(* GET /api/tutorial?sessionId= *)

\* 404 for an unknown session, else 200 with the session
GetSessionResponse(store, sid) ==
    IF getSession(store, sid) = NoSession THEN ErrorResponse(404)
    ELSE [status |-> 200, data |-> getSession(store, sid)]

\* res.ok
ResOk(res) == "status" \in DOMAIN res /\ res.status \in 200..299

----------------------------------------------------------------------------
(* The rephrase endpoint, on the store (it is not in the source tree) *)

\* how a rephrase request can end: new audio with or without new text, new
\* text only, an error response, or no response at all
RephraseOutcomes == {"ok", "okAudioOnly", "okTextOnly", "error", "throw"}

\* what a successful rephrase of frame i writes with its one updateFrame
RephrasePayload(sid, i, outcome) ==
    IF outcome = "ok"
    THEN [audioUrl |-> RephraseUrl(sid, i), text |-> RephrasedText]
    ELSE IF outcome = "okAudioOnly" THEN [audioUrl |-> RephraseUrl(sid, i)]
    ELSE [text |-> RephrasedText]

\* the response body of a successful rephrase
RephraseData(partial) ==
    [f \in {IF g = "audioUrl" THEN "newAudioUrl" ELSE "newText" : g \in DOMAIN partial}
        |-> IF f = "newAudioUrl" THEN partial.audioUrl ELSE partial.text]

\* the store after the request, and the response
RephraseStore(store, sid, i, outcome) ==
    IF outcome \in {"ok", "okAudioOnly", "okTextOnly"}
         /\ getSession(store, sid) # NoSession
         /\ FrameAt(getSession(store, sid).frames, i) # NoFrame
    THEN updateFrame(store, sid, i, RephrasePayload(sid, i, outcome))
    ELSE store

RephraseResponse(store, sid, i, outcome) ==
    IF outcome = "throw" THEN [thrown |-> TRUE]
    ELSE IF outcome = "error" \/ RephraseStore(store, sid, i, outcome) = store
    THEN ErrorResponse(500)
    ELSE [status |-> 200, data |-> RephraseData(RephrasePayload(sid, i, outcome))]

----------------------------------------------------------------------------
(* TutorialViewer *)

\* the main view is rendered: not loading, no error, at least one frame
MainView ==
    /\ viewer.pc = "ready"
    /\ ~viewer.loading
    /\ viewer.error = ""
    /\ Len(viewer.frames) > 0

isFirst == viewer.currentIndex = 0
isLast == viewer.currentIndex = Len(viewer.frames) - 1

\* the router delivers the session id; the effect starts fetchData
ViewerMount(sid) ==
    /\ viewer.pc = "unmounted"
    /\ viewer' = [viewer EXCEPT !.pc = "fetching", !.sessionId = sid]
    /\ UNCHANGED <<sessions, img, aud, imgRes, audRes, create, home>>

\* fetchData: the GET returns (or the fetch throws)
ViewerFetchReturns(thrown) ==
    /\ viewer.pc = "fetching"
    /\ LET res == GetSessionResponse(sessions, viewer.sessionId) IN
       IF thrown \/ ~ResOk(res)
       THEN viewer' = [viewer EXCEPT !.pc = "ready", !.loading = FALSE,
                          !.error = "Failed to load tutorial. Please try again."]
       ELSE viewer' = [viewer EXCEPT !.pc = "ready", !.loading = FALSE,
                          !.frames = res.data.frames]
    /\ UNCHANGED <<sessions, img, aud, imgRes, audRes, create, home>>

NavDisabledAtEdgeOnly(edge) == edge

NavDisabledWhileLoadingOnly(edge) == viewer.loadingFrame

\* disabled={isFirst || loadingFrame}, disabled={isLast || loadingFrame}
NavDisabled(edge) == edge \/ viewer.loadingFrame

\* onClick={() => setCurrentIndex(i => i - 1)}, disabled={isFirst || loadingFrame}
ViewerPrevious ==
    /\ MainView
    /\ ~NavDisabled(isFirst)
    /\ viewer' = [viewer EXCEPT !.currentIndex = @ - 1]
    /\ UNCHANGED <<sessions, img, aud, imgRes, audRes, create, home>>

\* onClick={() => setCurrentIndex(i => i + 1)}, disabled={isLast || loadingFrame}
ViewerNext ==
    /\ MainView
    /\ ~NavDisabled(isLast)
    /\ viewer' = [viewer EXCEPT !.currentIndex = @ + 1]
    /\ UNCHANGED <<sessions, img, aud, imgRes, audRes, create, home>>

\* handleRephrase up to the awaited fetch; the button is disabled={loadingFrame}
HandleRephraseClick ==
    /\ MainView
    /\ ~viewer.loadingFrame
    /\ FrameAt(viewer.frames, viewer.currentIndex) # NoFrame
    /\ viewer.sessionId # ""
    /\ viewer' = [viewer EXCEPT !.loadingFrame = TRUE, !.req = "sent",
                     !.reqIndex = viewer.currentIndex, !.resp = NoResponse,
                     !.alert = ""]
    /\ UNCHANGED <<sessions, img, aud, imgRes, audRes, create, home>>

\* the rephrase endpoint handles the request
RephraseServed(outcome) ==
    /\ viewer.req = "sent"
    /\ outcome \in RephraseOutcomes
    /\ sessions' = RephraseStore(sessions, viewer.sessionId, viewer.reqIndex, outcome)
    /\ viewer' = [viewer EXCEPT !.req = "answered",
                     !.resp = RephraseResponse(sessions, viewer.sessionId,
                                               viewer.reqIndex, outcome)]
    /\ UNCHANGED <<img, aud, imgRes, audRes, create, home>>

RephraseFailedNever(res) == FALSE

\* the fetch threw, or if (!res.ok) throw new Error('Failed to rephrase')
RephraseFailed(res) == "thrown" \in DOMAIN res \/ ~ResOk(res)

RephraseTargetsAll(idx, currentIndex) == TRUE

\* if (idx === currentIndex)
RephraseTargets(idx, currentIndex) == idx = currentIndex

\* data.newText || f.text
NewTextOr(data, f) ==
    IF "newText" \in DOMAIN data /\ data.newText # "" THEN data.newText ELSE f.text

\* { ...f, audioUrl: data.newAudioUrl, text: data.newText || f.text }
RephrasedFrame(f, data) ==
    MergeFrame(f, [audioUrl |-> data.newAudioUrl, text |-> NewTextOr(data, f)])

\* prev.map((f, idx) => idx === currentIndex ? {...} : f)
RephraseMap(prev, currentIndex, data) ==
    [p \in 1..Len(prev) |->
        IF RephraseTargets(p - 1, currentIndex)
        THEN RephrasedFrame(prev[p], data) ELSE prev[p]]

\* handleRephrase after the awaited fetch: apply, or alert; finally clear
\* loadingFrame
HandleRephraseReturns ==
    /\ viewer.req = "answered"
    /\ LET res == viewer.resp
           done == [viewer EXCEPT !.loadingFrame = FALSE, !.req = "none"]
       IN
       IF RephraseFailed(res)
       THEN viewer' = [done EXCEPT !.alert = "Sorry, failed to rephrase the audio."]
       ELSE IF "data" \in DOMAIN res /\ "newAudioUrl" \in DOMAIN res.data
       THEN viewer' = [done EXCEPT
                          !.frames = RephraseMap(@, viewer.reqIndex, res.data)]
       ELSE viewer' = done
    /\ UNCHANGED <<sessions, img, aud, imgRes, audRes, create, home>>

\* a frame as a stage run can leave it
StageFrames(sid, steps, i) ==
    { MergeFrame([text |-> StepText(steps, i)], urls) :
        urls \in { [f \in fields |->
                      PublicUrl(sid, i, IF f = "imageUrl" THEN "png" ELSE "mp3")]
                   : fields \in SUBSET {"imageUrl", "audioUrl"} } }

\* The stores the viewer is opened on: a session straight after its creation
\* (no frames) or after stage runs (a frame per step, each with or without
\* image and audio).
ViewerStoryboard(n) ==
    [p \in 1..n |-> [key |-> SortKeys(<<<<1>>, <<1, 0>>, <<2>>>>)[p],
                     text |-> KeyText(SortKeys(<<<<1>>, <<1, 0>>, <<2>>>>)[p])]]

ViewerSessions ==
    UNION {
        { [NewSession(ViewerStoryboard(n), "url", "explain5") EXCEPT !.frames = fr]
          : fr \in {<<>>} \cup
                   { f \in [1..n -> UNION {StageFrames("s1", ViewerStoryboard(n), i)
                                           : i \in 0..n - 1}] :
                       \A p \in 1..n :
                          f[p] \in StageFrames("s1", ViewerStoryboard(n), p - 1) } }
        : n \in 1..MaxSteps }

InitViewer ==
    /\ \E session \in ViewerSessions :
         sessions = [id \in SessionIds |-> IF id = "s1" THEN session ELSE NoSession]
    /\ img = IdleImage
    /\ aud = IdleAudio
    /\ imgRes = NoResponse
    /\ audRes = NoResponse
    /\ viewer = IdleViewer
    /\ create = IdleCreate
    /\ home = IdleHome

NextViewer ==
    \/ \E sid \in SessionIds : ViewerMount(sid)
    \/ \E thrown \in BOOLEAN : ViewerFetchReturns(thrown)
    \/ ViewerPrevious
    \/ ViewerNext
    \/ HandleRephraseClick
    \/ \E outcome \in RephraseOutcomes : RephraseServed(outcome)
    \/ HandleRephraseReturns

SpecViewer == InitViewer /\ [][NextViewer]_vars

----------------------------------------------------------------------------
(* One stage while frames are rephrased *)

\* A rephrase request for frame i of the session is served: its write to the
\* store (the response goes to a client that is not followed here).
RephraseRequest(sid, i, outcome) ==
    /\ sessions' = RephraseStore(sessions, sid, i, outcome)
    /\ sessions' # sessions
    /\ UNCHANGED <<img, aud, imgRes, audRes, viewer, create, home>>

RephraseStep ==
    \E sid \in SessionIds, i \in 0..MaxSteps - 1, outcome \in RephraseOutcomes :
        RephraseRequest(sid, i, outcome)

\* one session per number of steps, straight after its creation
InitRephrase ==
    /\ \E n \in 1..MaxSteps :
         sessions = [id \in SessionIds |->
                       IF id = "s1"
                       THEN NewSession(ViewerStoryboard(n), "url", "explain5")
                       ELSE NoSession]
    /\ img = IdleImage
    /\ aud = IdleAudio
    /\ imgRes = NoResponse
    /\ audRes = NoResponse
    /\ viewer = IdleViewer
    /\ create = IdleCreate
    /\ home = IdleHome

\* audio-stage runs and rephrase requests
NextRephraseAudio ==
    \/ \E sid \in SessionIds : AudioStart(sid)
    \/ AudioStep
    \/ RephraseStep

SpecRephraseAudio == InitRephrase /\ [][NextRephraseAudio]_vars

\* image-stage runs and rephrase requests
NextRephraseImage ==
    \/ \E sid \in SessionIds, variant \in ImageVariants : ImageStart(sid, variant)
    \/ ImageStep
    \/ RephraseStep

SpecRephraseImage == InitRephrase /\ [][NextRephraseImage]_vars

----------------------------------------------------------------------------
(* POST /api/tutorial: the storyboard reply and the session it creates *)

\* The text of a reply is a sequence of tokens: the braces and the comma, a
\* member "step1": "one" (kv1), "step2": "two" (kv2) or "step3": 3 (kvn, a
\* value that is no string), the JSON string literal "ab" (str), and a run
\* of text that is no JSON (prose).
ReplyTokens == {"{", "}", ",", "kv1", "kv2", "kvn", "str", "prose"}

Replies == UNION { [1..n -> ReplyTokens] : n \in 0..MaxReplyLen }

MemberTokens == {"kv1", "kv2", "kvn"}

MemberKey(token) ==
    IF token = "kv1" THEN <<1>> ELSE IF token = "kv2" THEN <<2>> ELSE <<3>>

MemberValue(token) == IF token = "kvn" THEN NotAString ELSE KeyText(MemberKey(token))

\* member (, member)*
IsMembers(inner) ==
    /\ Len(inner) % 2 = 1
    /\ \A p \in 1..Len(inner) :
         IF p % 2 = 1 THEN inner[p] \in MemberTokens ELSE inner[p] = ","

\* The object of "{" member (, member)* "}", read up to the member at p: a
\* key that comes again keeps the place of its first occurrence.
RECURSIVE ObjectSteps(_, _)
ObjectSteps(text, p) ==
    IF p < 2 THEN <<>>
    ELSE LET before == ObjectSteps(text, p - 2)
             key == MemberKey(text[p])
         IN IF \E q \in 1..Len(before) : before[q].key = key THEN before
            ELSE Append(before, [key |-> key, text |-> MemberValue(text[p])])

\* The string "ab" where an object is expected: Object.keys gives its
\* indices "0" and "1", and value[key] its characters.
StringSteps == <<[key |-> <<0>>, text |-> "a"], [key |-> <<1>>, text |-> "b"]>>

SyntaxError == [ok |-> FALSE]

\* JSON.parse(text): the value as its keys and values in insertion order, or
\* a SyntaxError
JsonParse(text) ==
    IF text = <<"str">> THEN [ok |-> TRUE, value |-> StringSteps]
    ELSE IF /\ Len(text) >= 2
            /\ text[1] = "{"
            /\ text[Len(text)] = "}"
            /\ \/ Len(text) = 2
               \/ IsMembers(SubSeq(text, 2, Len(text) - 1))
         THEN [ok |-> TRUE, value |-> ObjectSteps(text, Len(text) - 1)]
         ELSE SyntaxError

Positions(text, token) == { p \in 1..Len(text) : text[p] = token }

FirstOf(set) == CHOOSE p \in set : \A q \in set : p <= q
LastOf(set) == CHOOSE p \in set : \A q \in set : q <= p

NoMatch == <<>>

\* assistantReply.match(/\{[\s\S]+\}/): from the first "{" to the last "}",
\* with at least one character between them
JsonMatch(text) ==
    IF /\ Positions(text, "{") # {}
       /\ Positions(text, "}") # {}
       /\ LastOf(Positions(text, "}")) >= FirstOf(Positions(text, "{")) + 2
    THEN SubSeq(text, FirstOf(Positions(text, "{")), LastOf(Positions(text, "}")))
    ELSE NoMatch

Thrown(message) == [thrown |-> TRUE, message |-> message]

\* if (Object.keys(storyboard).length === 0) throw
ValidateStoryboard(storyboard) ==
    IF Len(storyboard) = 0
    THEN Thrown("Claude did not generate any storyboard steps")
    ELSE [thrown |-> FALSE, storyboard |-> storyboard]

\* try { JSON.parse(assistantReply) } catch { match, JSON.parse(jsonMatch[0]) }
ParseReply(assistantReply) ==
    IF JsonParse(assistantReply).ok
    THEN ValidateStoryboard(JsonParse(assistantReply).value)
    ELSE IF JsonMatch(assistantReply) = NoMatch
         THEN Thrown("Claude output was not valid JSON")
         ELSE IF JsonParse(JsonMatch(assistantReply)).ok
              THEN ValidateStoryboard(JsonParse(JsonMatch(assistantReply)).value)
              ELSE Thrown("SyntaxError")

\* res.status(status).json({ error })
CreateError(status, message) == [status |-> status, error |-> message]

CreateMethods == {"POST", "PUT"}
CreateUrls == {"", "https://example.com"}

CreateRunning == create.pc \in {"fetching", "generating"}

\* uuidv4(): an id no session has
FreeIds == { id \in SessionIds : sessions[id] = NoSession }
uuidv4 == IF "s1" \in FreeIds THEN "s1" ELSE CHOOSE id \in FreeIds : TRUE

\* createSession(sessionId, data)
createSession(store, id, data) == [store EXCEPT ![id] = data]

\* the style of a request body: one of the five the page offers, another
\* string, or none
NoStyle == ""
Styles == {"explain5", "frat", "pizza", "car", "professional", "other", NoStyle}

\* buildClaudePrompt: the switch that picks styleHint
StyleHint(style) ==
    CASE style = "explain5" -> "Explain like I am 5 years old"
      [] style = "frat" -> "casual college frat guy tone"
      [] style = "pizza" -> "Pizza Restaurant as an analogy"
      [] style = "car" -> "Car Factory analogy"
      [] style = "professional" -> "formal, adult professional manner"
      [] OTHER -> "clear and engaging manner"

\* style: style || 'explain5'
RecordedStyle(style) == IF style = NoStyle THEN "explain5" ELSE style

\* A request arrives: 405 unless POST, 400 without a URL, else the content
\* of the URL is fetched.
CreateRequest(method, url, style) ==
    /\ ~CreateRunning
    /\ FreeIds # {}
    /\ create' =
         IF method # "POST"
         THEN [pc |-> "rejected", reply |-> <<>>,
               res |-> CreateError(405, "Method Not Allowed")]
         ELSE IF url = ""
              THEN [pc |-> "rejected", reply |-> <<>>,
                    res |-> CreateError(400, "Missing URL")]
              ELSE [pc |-> "fetching", reply |-> <<>>, res |-> NoResponse,
                    style |-> style, styleHint |-> ""]
    /\ UNCHANGED <<sessions, img, aud, imgRes, audRes, viewer, home>>

\* the request the page sends: its style is the selected one, explain5
\* unless changed
CreateStart(method, url) == CreateRequest(method, url, "explain5")

\* The content is there: under 50 characters it throws, else the prompt is
\* built for the style and the text generation is called.
CreateContentReturns(sufficient) ==
    /\ create.pc = "fetching"
    /\ create' =
         IF sufficient
         THEN [create EXCEPT !.pc = "generating",
                              !.styleHint = StyleHint(create.style)]
         ELSE [create EXCEPT
                 !.pc = "failed",
                 !.res = CreateError(500,
                           "Could not extract sufficient content from the URL")]
    /\ UNCHANGED <<sessions, img, aud, imgRes, audRes, viewer, home>>

\* The reply is there: it is parsed and validated, and the session is
\* created; whatever is thrown goes to the outer catch, which answers 500.
CreateReplyReturns(assistantReply) ==
    /\ create.pc = "generating"
    /\ LET parsed == ParseReply(assistantReply)
       IN IF parsed.thrown
          THEN /\ create' = [pc |-> "done", reply |-> assistantReply,
                             res |-> CreateError(500, parsed.message)]
               /\ UNCHANGED sessions
          ELSE /\ sessions' = createSession(sessions, uuidv4,
                                NewSession(parsed.storyboard,
                                           "https://example.com",
                                           RecordedStyle(create.style)))
               /\ create' = [pc |-> "done", reply |-> assistantReply,
                             res |-> [status |-> 200, sessionId |-> uuidv4,
                                      steps |-> parsed.storyboard]]
    /\ UNCHANGED <<img, aud, imgRes, audRes, viewer, home>>

\* The server has started: no session yet.
InitCreate ==
    /\ sessions = [id \in SessionIds |-> NoSession]
    /\ img = IdleImage
    /\ aud = IdleAudio
    /\ imgRes = NoResponse
    /\ audRes = NoResponse
    /\ viewer = IdleViewer
    /\ create = IdleCreate
    /\ home = IdleHome

NextCreate ==
    \/ \E method \in CreateMethods, url \in CreateUrls : CreateStart(method, url)
    \/ \E sufficient \in BOOLEAN : CreateContentReturns(sufficient)
    \/ \E assistantReply \in Replies : CreateReplyReturns(assistantReply)

SpecCreate == InitCreate /\ [][NextCreate]_vars

\* the replies the text generation gives when whole requests are followed:
\* one step, two steps, and no JSON at all
SubmitReplies ==
    { <<"{", "kv1", "}">>, <<"{", "kv1", ",", "kv2", "}">>, <<"prose">> }

\* create requests of every style
NextStyle ==
    \/ \E method \in CreateMethods, url \in CreateUrls, style \in Styles :
          CreateRequest(method, url, style)
    \/ \E sufficient \in BOOLEAN : CreateContentReturns(sufficient)
    \/ \E assistantReply \in SubmitReplies : CreateReplyReturns(assistantReply)

SpecStyle == InitCreate /\ [][NextStyle]_vars

----------------------------------------------------------------------------
(* The requests as they arrive: verb and body *)

RequestMethods == {"GET", "POST", "PUT"}

\* sessionId of a request body or query: missing, a number, a string (the
\* empty string among them)
RequestIds ==
    {[type |-> "missing"], [type |-> "number"], [type |-> "string", value |-> ""]}
        \cup {[type |-> "string", value |-> id] : id \in SessionIds}

\* !sessionId || typeof sessionId !== 'string'
InvalidSessionId(sessionId) ==
    sessionId.type # "string" \/ sessionId.value = ""

StageMethodAllowedAny(method) == TRUE

\* req.method !== 'POST' is answered 405
StageMethodAllowed(method) == method = "POST"

\* the image-stage handler from its first line: 405, 400, or the run
ImageRequest(method, sessionId, variant) ==
    IF ~StageMethodAllowed(method)
    THEN /\ img.pc = "idle"
         /\ imgRes' = ErrorResponse(405)
         /\ UNCHANGED <<sessions, img, aud, audRes, viewer, create, home>>
    ELSE IF InvalidSessionId(sessionId)
         THEN /\ img.pc = "idle"
              /\ imgRes' = ErrorResponse(400)
              /\ UNCHANGED <<sessions, img, aud, audRes, viewer, create, home>>
         ELSE ImageStart(sessionId.value, variant)

\* the audio-stage handler from its first line
AudioRequest(method, sessionId) ==
    IF ~StageMethodAllowed(method)
    THEN /\ aud.pc = "idle"
         /\ audRes' = ErrorResponse(405)
         /\ UNCHANGED <<sessions, img, aud, imgRes, viewer, create, home>>
    ELSE IF InvalidSessionId(sessionId)
         THEN /\ aud.pc = "idle"
              /\ audRes' = ErrorResponse(400)
              /\ UNCHANGED <<sessions, img, aud, imgRes, viewer, create, home>>
         ELSE AudioStart(sessionId.value)

\* the handler of /api/tutorial from its first line: the GET branch, or the
\* create request
TutorialRequest(method, sessionId, url) ==
    IF method = "GET"
    THEN /\ ~CreateRunning
         /\ create' =
              [pc |-> "read", reply |-> <<>>,
               res |-> IF InvalidSessionId(sessionId)
                       THEN CreateError(400, "Missing or invalid sessionId")
                       ELSE GetSessionResponse(sessions, sessionId.value)]
         /\ UNCHANGED <<sessions, img, aud, imgRes, audRes, viewer, home>>
    ELSE CreateStart(method, url)

\* nothing of an earlier request is still running
Quiet == img.pc = "idle" /\ aud.pc = "idle" /\ ~CreateRunning

\* one create request, one request to each stage and any number of reads,
\* served one after the other
NextRequests ==
    \/ /\ Quiet
       /\ \E method \in RequestMethods, sessionId \in RequestIds, url \in CreateUrls :
             /\ method = "GET" \/ create = IdleCreate
             /\ TutorialRequest(method, sessionId, url)
    \/ \E sufficient \in BOOLEAN : CreateContentReturns(sufficient)
    \/ \E assistantReply \in SubmitReplies : CreateReplyReturns(assistantReply)
    \/ /\ Quiet /\ imgRes = NoResponse
       /\ \E method \in RequestMethods, sessionId \in RequestIds,
             variant \in ImageVariants : ImageRequest(method, sessionId, variant)
    \/ ImageStep
    \/ /\ Quiet /\ audRes = NoResponse
       /\ \E method \in RequestMethods, sessionId \in RequestIds :
             AudioRequest(method, sessionId)
    \/ AudioStep

SpecRequests == InitRephrase /\ [][NextRequests]_vars

----------------------------------------------------------------------------
(* HomePage: handleSubmit *)

\* what the URL field can hold when the form is submitted
SubmitUrls == {"", "https://example.com"}

PhaseAfterCreateSkipping == "audio"

\* what handleSubmit awaits once the create request has succeeded
PhaseAfterCreate == "imaging"

\* setError(...); finally setLoading(false)
HomeFails(message) ==
    home' = [home EXCEPT !.pc = "idle", !.error = message, !.loading = FALSE]

\* The form is submitted (the button is disabled while loading): without a
\* URL only the error is set, else the create request is sent.  One create
\* request is followed.
HomeSubmit(url) ==
    /\ home.pc = "idle"
    /\ ~home.loading
    /\ home.pushed = ""
    /\ IF url = ""
       THEN home' = [home EXCEPT !.targetURL = url,
                       !.error = "Please enter a repository or website URL"]
       ELSE /\ create = IdleCreate
            /\ home' = [home EXCEPT !.targetURL = url, !.error = "",
                          !.loading = TRUE, !.pc = "creating"]
    /\ UNCHANGED <<sessions, img, aud, imgRes, audRes, viewer, create>>

\* the create request arrives at /api/tutorial
SubmitCreateArrives ==
    /\ home.pc = "creating"
    /\ create = IdleCreate
    /\ CreateStart("POST", home.targetURL)

\* await fetch('/api/tutorial') is over: the fetch threw, the response is not
\* ok, or it carries the session id
HomeCreateReturns(thrown) ==
    /\ home.pc = "creating"
    /\ IF thrown THEN HomeFails("Failed to fetch")
       ELSE /\ create.res # NoResponse
            /\ IF ~ResOk(create.res) THEN HomeFails(create.res.error)
               ELSE home' = [home EXCEPT !.pc = PhaseAfterCreate,
                               !.sessionId = create.res.sessionId]
    /\ UNCHANGED <<sessions, img, aud, imgRes, audRes, viewer, create>>

\* the image-stage request arrives at /api/image-gen
SubmitImageArrives ==
    /\ home.pc = "imaging"
    /\ ~(img.pc # "idle")
    /\ imgRes = NoResponse
    /\ \E variant \in ImageVariants : ImageStart(home.sessionId, variant)

\* await fetch('/api/image-gen') is over: whatever the status, the audio
\* stage is next; a thrown fetch ends the submission
HomeImageReturns(thrown) ==
    /\ home.pc = "imaging"
    /\ IF thrown THEN HomeFails("Failed to fetch")
       ELSE /\ imgRes # NoResponse
            /\ img.pc = "idle"
            /\ home' = [home EXCEPT !.pc = "audio"]
    /\ UNCHANGED <<sessions, img, aud, imgRes, audRes, viewer, create>>

\* the audio-stage request arrives at /api/audio-gen
SubmitAudioArrives ==
    /\ home.pc = "audio"
    /\ aud.pc = "idle"
    /\ audRes = NoResponse
    /\ AudioStart(home.sessionId)

\* await fetch('/api/audio-gen') is over: router.push(`/tutorial/${sessionId}`)
HomeAudioReturns(thrown) ==
    /\ home.pc = "audio"
    /\ IF thrown THEN HomeFails("Failed to fetch")
       ELSE /\ audRes # NoResponse
            /\ aud.pc = "idle"
            /\ home' = [home EXCEPT !.pc = "idle", !.loading = FALSE,
                          !.pushed = home.sessionId]
    /\ UNCHANGED <<sessions, img, aud, imgRes, audRes, viewer, create>>

\* the router opens the viewer page of the pushed session
SubmitViewerOpens ==
    /\ home.pushed # ""
    /\ ViewerMount(home.pushed)

NextSubmit ==
    \/ \E url \in SubmitUrls : HomeSubmit(url)
    \/ SubmitCreateArrives
    \/ \E sufficient \in BOOLEAN : CreateContentReturns(sufficient)
    \/ \E assistantReply \in SubmitReplies : CreateReplyReturns(assistantReply)
    \/ \E thrown \in BOOLEAN : HomeCreateReturns(thrown)
    \/ SubmitImageArrives
    \/ ImageStep
    \/ \E thrown \in BOOLEAN : HomeImageReturns(thrown)
    \/ SubmitAudioArrives
    \/ AudioStep
    \/ \E thrown \in BOOLEAN : HomeAudioReturns(thrown)
    \/ SubmitViewerOpens
    \/ \E thrown \in BOOLEAN : ViewerFetchReturns(thrown)

SpecSubmit == InitCreate /\ [][NextSubmit]_vars

----------------------------------------------------------------------------
(* Properties of the pipeline *)

\* the session the stages work on
TheSession == getSession(sessions, "s1")
TheFrames == TheSession.frames
TheSteps == TheSession.steps
N == Len(TheSteps)

HasField(frame, field) == frame # NoFrame /\ field \in DOMAIN frame

\* the frame has a URL in this field
HasUrl(frame, field) == HasField(frame, field) /\ frame[field] # Undefined

\* the 0-based frame index a stage URL belongs to
UrlIndex(url) == url[2] - 1

Range(seq) == {seq[p] : p \in 1..Len(seq)}

Answered200(res) == "status" \in DOMAIN res /\ res.status = 200

\* the URLs a finished run reported
ReportedUrls(res) == IF "urls" \in DOMAIN res THEN Range(res.urls) ELSE {}

\* the URLs the current or last image run (audio run) uploaded
ImageUploaded == Range(img.imageUrls) \cup ReportedUrls(imgRes)
AudioUploaded == Range(aud.audioUrls) \cup ReportedUrls(audRes)

ImageRunning == img.pc # "idle"
AudioRunning == aud.pc # "idle"

\* C1: every step whose upload succeeded has its URL in its frame
C1_ArtifactsKept ==
    /\ \A url \in ImageUploaded :
         /\ HasUrl(FrameAt(TheFrames, UrlIndex(url)), "imageUrl")
         /\ FrameAt(TheFrames, UrlIndex(url)).imageUrl = url
    /\ \A url \in AudioUploaded :
         /\ HasUrl(FrameAt(TheFrames, UrlIndex(url)), "audioUrl")
         /\ FrameAt(TheFrames, UrlIndex(url)).audioUrl = url

\* C1: a step of the image stage that ends without a rate-limit failure
\* leaves the run at the same step or at the first attempt of the next one,
\* and the run ends only after the last step, with a 200 response
C1_ImageGoesOn ==
    (ImageRunning /\ img'.rl = img.rl) =>
        /\ img'.pc = "idle" => (img.i = N - 1 /\ Answered200(imgRes'))
        /\ img'.pc # "idle" =>
             \/ img'.i = img.i
             \/ img'.i = img.i + 1 /\ img'.pc = "gen" /\ img'.attempt = 0

\* C1: the same for the audio stage
C1_AudioGoesOn ==
    (AudioRunning /\ aud'.rl = aud.rl) =>
        /\ aud'.pc = "idle" => (aud.i = N - 1 /\ Answered200(audRes'))
        /\ aud'.pc # "idle" =>
             \/ aud'.i = aud.i
             \/ aud'.i = aud.i + 1 /\ aud'.pc = "tts"

\* C1 (bulk-skip isolation): in both stages a step that fails for another
\* reason than a rate limit (all attempts failed, or the upload failed) never
\* ends the run: the next step is attempted, and every step whose generation
\* and upload succeeded has its artifact URL in its frame.
C1_BulkSkipIsolation ==
    /\ []C1_ArtifactsKept
    /\ [][C1_ImageGoesOn /\ C1_AudioGoesOn]_vars

\* C1 witness: both stages answered without any rate limit; each skipped
\* step 0 and succeeded on step 1.
C1_Witness ==
    /\ N = 2
    /\ img.rl = NoIndex /\ aud.rl = NoIndex
    /\ Answered200(imgRes) /\ imgRes.urls = <<PublicUrl("s1", 1, "png")>>
    /\ Answered200(audRes) /\ audRes.urls = <<PublicUrl("s1", 1, "mp3")>>
    /\ ~HasUrl(FrameAt(TheFrames, 0), "imageUrl")
    /\ ~HasUrl(FrameAt(TheFrames, 0), "audioUrl")
    /\ HasUrl(FrameAt(TheFrames, 1), "imageUrl")
    /\ HasUrl(FrameAt(TheFrames, 1), "audioUrl")

\* C2: a rate-limit failure at step k ends the run at once
C2_RunOver == img.rl # NoIndex => img.pc = "idle"

\* C2: the step that records the rate-limit failure changes no frame, and
\* the run has uploaded nothing for the steps k..N-1
C2_NothingFromK ==
    (img.rl = NoIndex /\ img'.rl # NoIndex) =>
        /\ sessions' = sessions
        /\ Answered200(imgRes')
        /\ \A url \in ReportedUrls(imgRes') : UrlIndex(url) < img'.rl
        /\ \A url \in Range(img.imageUrls) : url \in ReportedUrls(imgRes')

\* C2 (fail-fast, image stage): after a generation attempt of step k failed
\* with a rate-limit classification the run makes no further attempt (it is
\* over), steps k..N-1 got no imageUrl from it and no frame was changed.
C2_ImageFailFast ==
    /\ []C2_RunOver
    /\ [][C2_NothingFromK]_vars

\* C2 witness: a run hit the rate limit at step 0 of 2; frame 0 keeps the
\* image of an earlier run and frame 1 has none.
C2_Witness ==
    /\ N = 2
    /\ img.rl = 0
    /\ imgRes = StageResponse(<<>>, 2)
    /\ HasUrl(FrameAt(TheFrames, 0), "imageUrl")
    /\ ~HasUrl(FrameAt(TheFrames, 1), "imageUrl")

\* C3 (fail-fast, audio stage): after the speech-synthesis call of step k
\* failed with a rate-limit signal the run makes no call for a later step.
C3_AudioFailFast ==
    ~(aud.rl # NoIndex /\ aud.pc \in {"tts", "upload"} /\ aud.i > aud.rl)

BothCompleted == Answered200(imgRes) /\ Answered200(audRes)

\* C4 as stated: once both stages have run to completion there are N frames
\* and every frame has a non-empty text.
C4_NonEmptyText ==
    BothCompleted =>
        /\ Len(TheFrames) = N
        /\ \A i \in 0..N - 1 :
             /\ HasField(FrameAt(TheFrames, i), "text")
             /\ FrameAt(TheFrames, i).text # ""

\* C4 (amended): once both stages have run to completion there are N frames
\* and every frame has its text set, to the storyboard text of its step.
C4_TextOfStep ==
    BothCompleted =>
        /\ Len(TheFrames) = N
        /\ \A i \in 0..N - 1 :
             /\ HasField(FrameAt(TheFrames, i), "text")
             /\ FrameAt(TheFrames, i).text = StepText(TheSteps, i)

\* C4 witness: both stages completed, the image stage by the rate-limit
\* short-circuit and the audio stage with a skip; the last frame has only text.
C4_Witness ==
    /\ BothCompleted
    /\ N = 2
    /\ img.rl # NoIndex
    /\ Len(TheFrames) = 2
    /\ DOMAIN FrameAt(TheFrames, 1) = {"text"}
    /\ HasUrl(FrameAt(TheFrames, 0), "audioUrl")

\* C5 (no lost update): when the image stage has written imageUrl and the
\* audio stage has written audioUrl to the same frame, in either order and
\* under any interleaving, the frame has both.
C5_NoLostUpdate ==
    \A i \in 0..N - 1 :
        (PublicUrl("s1", i, "png") \in ImageUploaded
            /\ PublicUrl("s1", i, "mp3") \in AudioUploaded) =>
        /\ HasUrl(FrameAt(TheFrames, i), "imageUrl")
        /\ HasUrl(FrameAt(TheFrames, i), "audioUrl")

\* C5 witness: both stages are running and both have written frame 0.
C5_Witness ==
    /\ ImageRunning /\ AudioRunning
    /\ PublicUrl("s1", 0, "png") \in Range(img.imageUrls)
    /\ PublicUrl("s1", 0, "mp3") \in Range(aud.audioUrls)
    /\ HasUrl(FrameAt(TheFrames, 0), "imageUrl")
    /\ HasUrl(FrameAt(TheFrames, 0), "audioUrl")

\* C6: every frame slot holds a frame with text
C6_TextSet ==
    \A i \in 0..Len(TheFrames) - 1 : HasField(FrameAt(TheFrames, i), "text")

\* C6: no step removes a frame or changes an artifact URL it has
C6_ArtifactsStay ==
    /\ Len(TheFrames') >= Len(TheFrames)
    /\ \A i \in 0..Len(TheFrames) - 1 :
         \A field \in {"imageUrl", "audioUrl"} :
            HasUrl(FrameAt(TheFrames, i), field) =>
                /\ HasUrl(FrameAt(TheFrames', i), field)
                /\ FrameAt(TheFrames', i)[field] = FrameAt(TheFrames, i)[field]

\* C6 (artifact monotonicity): a materialized frame always has text, and
\* under any interleaving of image-stage and audio-stage runs an imageUrl or
\* audioUrl a frame has is never removed nor changed.
C6_ArtifactMonotonicity ==
    /\ []C6_TextSet
    /\ [][C6_ArtifactsStay]_vars

\* C6 witness: a second audio run is rewriting frames that already have both
\* artifacts while an image run is under way.
C6_Witness ==
    /\ ImageRunning
    /\ aud.pc = "upload"
    /\ HasUrl(FrameAt(TheFrames, aud.i), "audioUrl")
    /\ HasUrl(FrameAt(TheFrames, aud.i), "imageUrl")

\* the key with exactly rank keys of the storyboard before it in lexical order
RankedKey(steps, rank) ==
    CHOOSE key \in Range(ObjectKeys(steps)) :
        Cardinality({other \in Range(ObjectKeys(steps)) : LexLess(other, key)}) = rank

\* C9 (lexical key order): whatever the insertion order of the keys, the
\* frame keys are the storyboard's keys in ascending lexical order, and the
\* text either stage puts into frame i is the text of the i-th key in that
\* order.
C9_LexicalKeyOrder ==
    LET frameKeys == FrameKeys(TheSteps) IN
    /\ Len(frameKeys) = N
    /\ Range(frameKeys) = Range(ObjectKeys(TheSteps))
    /\ \A p, q \in 1..N : p < q => LexLess(frameKeys[p], frameKeys[q])
    /\ \A i \in 0..Len(TheFrames) - 1 :
         /\ HasField(FrameAt(TheFrames, i), "text")
         /\ FrameAt(TheFrames, i).text = Lookup(TheSteps, RankedKey(TheSteps, i))
    /\ ImageRunning /\ img.i < N =>
         StepText(TheSteps, img.i) = Lookup(TheSteps, RankedKey(TheSteps, img.i))
    /\ AudioRunning /\ aud.i < N =>
         StepText(TheSteps, aud.i) = Lookup(TheSteps, RankedKey(TheSteps, aud.i))

\* C9 witness: "step2" was inserted before "step10"; both stages have written
\* frame 0, which holds the text of "step10".
C9_Witness ==
    /\ N = 2
    /\ TheSteps[1].key = <<2>> /\ TheSteps[2].key = <<1, 0>>
    /\ HasUrl(FrameAt(TheFrames, 0), "imageUrl")
    /\ HasUrl(FrameAt(TheFrames, 0), "audioUrl")
    /\ FrameAt(TheFrames, 0).text = "ten"
    /\ FrameAt(TheFrames, 1).text = "two"

----------------------------------------------------------------------------
(* Properties of the viewer and of rephrase *)

\* the field of a frame as a sequence: empty when the frame has no such field
FieldOf(frame, field) == IF HasField(frame, field) THEN <<frame[field]>> ELSE <<>>

\* all frames but frame i are the same in both lists, and so is frame i's image
SameButFrame(before, after, i) ==
    /\ Len(after) = Len(before)
    /\ \A j \in 0..Len(before) - 1 : j # i => FrameAt(after, j) = FrameAt(before, j)
    /\ FieldOf(FrameAt(after, i), "imageUrl") = FieldOf(FrameAt(before, i), "imageUrl")

\* C7: the two steps of a rephrase of frame i (the endpoint's write, the
\* viewer's handling of the response) leave every other frame and frame i's
\* imageUrl as they were, in the store and in the viewer
C7_RephraseStep ==
    viewer.req # "none" =>
        /\ SameButFrame(TheFrames, TheFrames', viewer.reqIndex)
        /\ SameButFrame(viewer.frames, viewer'.frames, viewer.reqIndex)
        /\ viewer'.reqIndex = viewer.reqIndex
        /\ viewer'.currentIndex = viewer.reqIndex

\* C7: once loaded, the viewer's frames change only by a rephrase
C7_NoOtherChange ==
    (viewer.pc = "ready" /\ viewer'.frames # viewer.frames) => viewer.req = "answered"

\* C7 (rephrase touches one frame): a rephrase of frame i changes only
\* frames[i], and of it only text and audioUrl: every other frame and
\* frames[i].imageUrl are the same before and after.
C7_RephraseOnlyFrame == [][C7_RephraseStep /\ C7_NoOtherChange]_vars

\* C7 witness: frame 1 of 2 was rephrased (new text and audio) in the store
\* and in the viewer; it has its image, and frame 0 has its stage audio.
C7_Witness ==
    /\ viewer.req = "none" /\ viewer.reqIndex = 1
    /\ Len(viewer.frames) = 2
    /\ viewer.frames[2].text = RephrasedText
    /\ viewer.frames[2].audioUrl = RephraseUrl("s1", 1)
    /\ HasUrl(viewer.frames[2], "imageUrl")
    /\ viewer.frames[1] = TheFrames[1]
    /\ HasUrl(viewer.frames[1], "audioUrl")
    /\ TheFrames[2] = viewer.frames[2]

\* the response of a failed rephrase request: no response, or not a 2xx
FailureResponse(res) ==
    \/ "thrown" \in DOMAIN res
    \/ "status" \in DOMAIN res /\ res.status \notin 200..299

\* C8 (failed rephrase): when the rephrase request fails the store is not
\* written, the viewer's frames stay as they are, the failure is alerted and
\* the in-flight flag is cleared.
C8_FailedRephrase ==
    [][ /\ (viewer.req = "sent" /\ FailureResponse(viewer'.resp)) =>
              sessions' = sessions
        /\ (viewer.req = "answered" /\ FailureResponse(viewer.resp)) =>
              /\ sessions' = sessions
              /\ viewer'.frames = viewer.frames
              /\ viewer'.alert = "Sorry, failed to rephrase the audio."
              /\ ~viewer'.loadingFrame ]_vars

\* C8 witness: a rephrase of a frame with audio failed with an error
\* response; the alert is up and the frame is what the store has.
C8_Witness ==
    /\ viewer.req = "none"
    /\ viewer.resp = ErrorResponse(500)
    /\ viewer.alert # ""
    /\ HasUrl(FrameAt(viewer.frames, viewer.reqIndex), "audioUrl")
    /\ viewer.frames = TheFrames

----------------------------------------------------------------------------
(* Properties of the create endpoint *)

\* the reply is one JSON object and nothing else
IsJsonObject(text) == Len(text) >= 2 /\ text[1] = "{" /\ JsonParse(text).ok

\* the reply has a {...} somewhere
HasBraces(text) ==
    \E a, b \in 1..Len(text) : a < b /\ text[a] = "{" /\ text[b] = "}"

\* from its first "{" to its last "}"
BraceSubstring(text) ==
    SubSeq(text, FirstOf(Positions(text, "{")), LastOf(Positions(text, "}")))

CreateFatal == create.res.status = 500

CreatedWith(steps) ==
    /\ ResOk(create.res)
    /\ create.res.steps = steps
    /\ getSession(sessions, create.res.sessionId) # NoSession
    /\ getSession(sessions, create.res.sessionId).steps = steps

\* what the reply must lead to: the object it is, else the object its {...}
\* substring is, and a fatal error when there is neither or it has no key
C10_Expected(text) ==
    IF IsJsonObject(text)
    THEN IF Len(JsonParse(text).value) = 0 THEN CreateFatal
         ELSE CreatedWith(JsonParse(text).value)
    ELSE IF /\ HasBraces(text)
            /\ IsJsonObject(BraceSubstring(text))
            /\ Len(JsonParse(BraceSubstring(text)).value) > 0
         THEN CreatedWith(JsonParse(BraceSubstring(text)).value)
         ELSE CreateFatal

\* C10: a reply that is a JSON object is parsed directly; a reply with prose
\* around one {...} is parsed from that substring; a reply with no {...} at
\* all, a substring that does not parse, or an object with zero keys ends the
\* request with a fatal error and creates no session.
C10_ReplyParsing ==
    create.pc = "done" => C10_Expected(create.reply)

\* the same, leaving out the replies that are JSON but no object
C10_ReplyParsingOfNonValues ==
    (create.pc = "done" /\ ~(JsonParse(create.reply).ok /\ ~IsJsonObject(create.reply)))
        => C10_Expected(create.reply)

\* the reply holds a storyboard: it is a JSON object with at least one key,
\* or its {...} substring is
ReplyIsStoryboard(text) ==
    \/ IsJsonObject(text) /\ Len(JsonParse(text).value) > 0
    \/ /\ ~JsonParse(text).ok
       /\ HasBraces(text)
       /\ IsJsonObject(BraceSubstring(text))
       /\ Len(JsonParse(BraceSubstring(text)).value) > 0

\* the step ends the request in one of the fatal cases: too little content,
\* or a reply that holds no storyboard
EndsFatal ==
    \/ create.pc = "fetching" /\ create'.pc = "failed"
    \/ create.pc = "generating" /\ create'.pc = "done"
                                /\ ~ReplyIsStoryboard(create'.reply)

\* C11: a create request that ends in a fatal error (too little content, a
\* reply that cannot be parsed, a reply that is no JSON object with at least
\* one step key, an empty storyboard) answers 500 with a message and leaves
\* the session store as it was.
C11_NoPartialSession ==
    [][EndsFatal => /\ create'.res.status = 500
                    /\ "error" \in DOMAIN create'.res
                    /\ sessions' = sessions]_vars

\* every answer other than 200 leaves the store as it was, and the store
\* changes only by the one session a 200 reports
C11_StoreChangesOnSuccess ==
    [][/\ (create'.res # NoResponse /\ ~ResOk(create'.res)) => sessions' = sessions
       /\ sessions' # sessions =>
            /\ ResOk(create'.res)
            /\ sessions[create'.res.sessionId] = NoSession
            /\ \A id \in SessionIds \ {create'.res.sessionId} :
                 sessions'[id] = sessions[id]]_vars

----------------------------------------------------------------------------
(* Properties of the endpoints that take a session id *)

\* C12: GET session, the image-stage trigger and the audio-stage trigger
\* each answer 404 when the session id names no session.
C12_UnknownSession404 ==
    [][\A sid \in SessionIds :
         getSession(sessions, sid) = NoSession =>
           /\ GetSessionResponse(sessions, sid).status = 404
           /\ (\E variant \in ImageVariants : ImageStart(sid, variant))
                => imgRes'.status = 404
           /\ AudioStart(sid) => audRes'.status = 404]_vars

\* what the code answers instead: GET 404, the two triggers 400
C12_UnknownSessionAsCoded ==
    [][\A sid \in SessionIds :
         getSession(sessions, sid) = NoSession =>
           /\ GetSessionResponse(sessions, sid).status = 404
           /\ (\E variant \in ImageVariants : ImageStart(sid, variant))
                => (imgRes'.status = 400 /\ sessions' = sessions)
           /\ AudioStart(sid) => (audRes'.status = 400 /\ sessions' = sessions)]_vars

----------------------------------------------------------------------------
(* Properties of the stage responses *)

\* the step answers a stage request with an error
ImageErrorAnswer ==
    imgRes' # imgRes /\ imgRes' # NoResponse /\ ~Answered200(imgRes')
AudioErrorAnswer ==
    audRes' # audRes /\ audRes' # NoResponse /\ ~Answered200(audRes')

\* the step is a stage request that fails a precondition: the session is
\* not found or its storyboard is empty
ImagePreconditionFails ==
    \E sid \in SessionIds :
        /\ \E variant \in ImageVariants : ImageStart(sid, variant)
        /\ \/ getSession(sessions, sid) = NoSession
           \/ StepCount(getSession(sessions, sid)) = 0
AudioPreconditionFails ==
    \E sid \in SessionIds :
        /\ AudioStart(sid)
        /\ \/ getSession(sessions, sid) = NoSession
           \/ StepCount(getSession(sessions, sid)) = 0

\* a success response with the succeeded/total summary
SummaryOf(res, total) ==
    /\ Answered200(res)
    /\ res.total = total
    /\ Len(res.urls) <= total

\* C13: a stage run answers with an error only when the session is not found
\* or the storyboard is empty; a run on an existing session with at least one
\* step always ends with a success response carrying the succeeded/total
\* summary.
C13_StageNeverRaises ==
    [][/\ ImageErrorAnswer => ImagePreconditionFails
       /\ AudioErrorAnswer => AudioPreconditionFails
       /\ (ImageRunning /\ ~ImageRunning') => SummaryOf(imgRes', N)
       /\ (AudioRunning /\ ~AudioRunning') => SummaryOf(audRes', N)]_vars

\* a stored session has a step whose value is no string
StoresNonString ==
    \E id \in SessionIds :
        /\ getSession(sessions, id) # NoSession
        /\ \E p \in 1..StepCount(getSession(sessions, id)) :
             ~IsString(getSession(sessions, id).steps[p].text)

----------------------------------------------------------------------------
(* Properties of the order of the steps within a run *)

\* the external calls of the image run (audio run) that are in flight
ImageCalls ==
    IF img.pc = "gen" THEN {<<"generate", img.i>>}
    ELSE IF img.pc = "upload" THEN {<<"upload", img.i>>} ELSE {}
AudioCalls ==
    IF aud.pc = "tts" THEN {<<"synthesize", aud.i>>}
    ELSE IF aud.pc = "upload" THEN {<<"upload", aud.i>>} ELSE {}

\* a run starts with step 0; it stays at its step or, when a call of step i
\* has just returned, goes to the first call of step i + 1; it ends after
\* the last step or at a rate limit; what it uploads is for its step
C14_ImageInOrder ==
    /\ (~ImageRunning /\ ImageRunning') => (img'.i = 0 /\ img'.pc = "gen")
    /\ (ImageRunning /\ ImageRunning') =>
         \/ img'.i = img.i
         \/ /\ img'.i = img.i + 1
            /\ img.pc \in {"gen", "upload"}
            /\ img'.pc = "gen" /\ img'.attempt = 0
    /\ (ImageRunning /\ ~ImageRunning') => (img.i = N - 1 \/ img'.rl # img.rl)
    /\ ImageRunning =>
         \A url \in ImageUploaded' \ ImageUploaded :
            UrlIndex(url) = img.i /\ img.pc = "upload"

C14_AudioInOrder ==
    /\ (~AudioRunning /\ AudioRunning') => (aud'.i = 0 /\ aud'.pc = "tts")
    /\ (AudioRunning /\ AudioRunning') =>
         \/ aud'.i = aud.i
         \/ /\ aud'.i = aud.i + 1
            /\ aud.pc \in {"tts", "upload"}
            /\ aud'.pc = "tts"
    /\ (AudioRunning /\ ~AudioRunning') => aud.i = N - 1
    /\ AudioRunning =>
         \A url \in AudioUploaded' \ AudioUploaded :
            UrlIndex(url) = aud.i /\ aud.pc = "upload"

\* C14: within one stage run the steps are processed in index order, the
\* calls for frame i start only when the attempt for frame i - 1 has
\* finished, and at most one external call of the run is in flight.
C14_SequentialSteps ==
    /\ [](Cardinality(ImageCalls) <= 1 /\ Cardinality(AudioCalls) <= 1)
    /\ [][C14_ImageInOrder /\ C14_AudioInOrder]_vars

\* C14 witness: the image run is generating step 1 after it uploaded step 0,
\* while the audio run is uploading step 1 after it skipped step 0.
C14_Witness ==
    /\ img.pc = "gen" /\ img.i = 1
    /\ img.imageUrls = <<PublicUrl("s1", 0, "png")>>
    /\ aud.pc = "upload" /\ aud.i = 1
    /\ aud.audioUrls = <<>>

----------------------------------------------------------------------------
(* Properties of the retries *)

\* the image run leaves its step: it goes to another step or ends
ImageLeavesStep == ImageRunning /\ (~ImageRunning' \/ img'.i # img.i)

\* the image run has its generated image (it waits or uploads)
ImageGenerated == img.pc \in {"delay", "upload"}

C15_Attempts ==
    \* a step begins with its first attempt
    /\ (ImageRunning' /\ (~ImageRunning \/ img'.i # img.i)) =>
         (img'.pc = "gen" /\ img'.attempt = 0)
    \* within a step the attempts are counted one by one, and only a failed
    \* attempt is followed by another
    /\ (ImageRunning /\ ImageRunning' /\ img'.i = img.i) =>
         /\ img'.attempt \in {img.attempt, img.attempt + 1}
         /\ img'.attempt = img.attempt + 1 => ~ImageGenerated
         /\ ImageGenerated => ImageGenerated'
    \* the first rate-limit failure ends the attempts of the run
    /\ (ImageRunning /\ img'.rl # img.rl) => (img.pc = "gen" /\ ~ImageRunning')
    \* a step is left after its upload, at a rate limit, or after exactly
    \* three failed attempts
    /\ ImageLeavesStep =>
         \/ img.pc = "upload"
         \/ img.pc = "gen" /\ img'.rl # img.rl
         \/ img.pc = "gen" /\ img.attempt = MaxAttempts - 1

\* C15: the image stage makes at least 1 and at most 3 generation attempts
\* for a step; it stops at the first success or the first rate-limit
\* failure, and skips the step for other failures only after exactly 3
\* failed attempts.
C15_BoundedImageRetry ==
    /\ [](ImageRunning => img.attempt \in 0..MaxAttempts - 1)
    /\ [][C15_Attempts]_vars

\* C15 witness: step 0 ended without an image and without a rate limit, and
\* step 1 is at its third attempt after two failures.
C15_Witness ==
    /\ img.pc = "gen" /\ img.i = 1 /\ img.attempt = 2
    /\ img.imageUrls = <<>>
    /\ img.rl = NoIndex
    /\ ~HasUrl(FrameAt(TheFrames, 0), "imageUrl")

\* the audio run leaves its step: it goes to another step or ends
AudioLeavesStep == AudioRunning /\ (~AudioRunning' \/ aud'.i # aud.i)

\* the synthesis call of the step has failed in this step of the run
SynthesisFailed == aud.pc = "tts" /\ aud' # aud /\ aud'.pc # "upload"

\* C16: a step of the audio stage whose synthesis call fails is tried again,
\* up to 3 attempts in total, and is skipped only after the third failure.
C16_BoundedAudioRetry ==
    [][SynthesisFailed =>
         IF AudioAttemptsMade < MaxAttempts
         THEN aud'.pc = "tts" /\ aud'.i = aud.i
         ELSE AudioLeavesStep]_vars

\* what the code does: the first failure of the synthesis call skips the step
C16_SkippedAtFirstFailure ==
    [][SynthesisFailed => (AudioLeavesStep /\ sessions' = sessions)]_vars

----------------------------------------------------------------------------
(* Properties of the pre-initialisation *)

\* what a reader gets for the session: N frames, none missing, each with text
ReaderSeesAllFrames(sid) ==
    LET res == GetSessionResponse(sessions, sid) IN
    /\ ResOk(res)
    /\ Len(res.data.frames) = Len(res.data.steps)
    /\ \A i \in 0..Len(res.data.steps) - 1 :
         /\ FrameAt(res.data.frames, i) # NoFrame
         /\ HasField(FrameAt(res.data.frames, i), "text")

\* C17: while a stage runs, at each of its suspension points, a reader of the
\* session sees a frame with text for every index 0..N-1.
C17_PreInitialized ==
    /\ ImageRunning => ReaderSeesAllFrames(img.sid)
    /\ AudioRunning => ReaderSeesAllFrames(aud.sid)

\* C17 witness: the audio stage is the first to run on the session and waits
\* for its first synthesis call; the two frames are there, with text only.
C17_Witness ==
    /\ aud.pc = "tts" /\ aud.i = 0
    /\ ~ImageRunning /\ imgRes = NoResponse
    /\ N = 2
    /\ Len(TheFrames) = 2
    /\ \A i \in 0..1 : DOMAIN FrameAt(TheFrames, i) = {"text"}

----------------------------------------------------------------------------
(* Properties of the text of a frame *)

TextAt(frames, i) == FrameAt(frames, i).text

\* the step is one of the audio stage (of the image stage)
AudioActs == aud' # aud \/ audRes' # audRes
ImageActs == img' # img \/ imgRes' # imgRes

\* C18: the audio stage never changes the text of a frame that already
\* exists, so the text a rephrase gave frame i is still there after the
\* audio stage has succeeded for step i.
C18_AudioKeepsText ==
    [][AudioActs =>
         \A i \in 0..Len(TheFrames) - 1 :
            HasField(FrameAt(TheFrames, i), "text") =>
                TextAt(TheFrames', i) = TextAt(TheFrames, i)]_vars

\* what the code does: the audio stage leaves the text alone until the
\* upload of step i, and then writes the storyboard text of step i
C18_AudioWritesStoryboardText ==
    [][AudioActs =>
         \A i \in 0..Len(TheFrames) - 1 :
            HasField(FrameAt(TheFrames, i), "text") =>
                IF aud.pc = "upload" /\ aud.i = i
                      /\ PublicUrl("s1", i, "mp3") \in AudioUploaded' \ AudioUploaded
                THEN TextAt(TheFrames', i) = StepText(TheSteps, i)
                ELSE TextAt(TheFrames', i) = TextAt(TheFrames, i)]_vars

\* C19: the start of an image-stage run sets the text of every frame 0..N-1
\* to the storyboard text of its step, whatever a rephrase had put there and
\* before any generation is attempted; no later step of the run writes any
\* other text.
C19_ImageResetsText ==
    [][/\ (~ImageRunning /\ ImageRunning') =>
            /\ Len(TheFrames') = N
            /\ \A i \in 0..N - 1 : TextAt(TheFrames', i) = StepText(TheSteps, i)
       /\ (ImageRunning /\ ImageActs) =>
            \A i \in 0..N - 1 :
               TextAt(TheFrames', i) \in {TextAt(TheFrames, i), StepText(TheSteps, i)}]_vars

\* C19 witness: the run waits to retry step 0 and has not come to step 1;
\* both frames carry the audio of a rephrase and the storyboard text again.
C19_Witness ==
    /\ img.pc = "retryWait" /\ img.i = 0
    /\ N = 2
    /\ \A i \in 0..1 :
         /\ HasUrl(FrameAt(TheFrames, i), "audioUrl")
         /\ FrameAt(TheFrames, i).audioUrl = RephraseUrl("s1", i)
         /\ ~HasUrl(FrameAt(TheFrames, i), "imageUrl")
         /\ TextAt(TheFrames, i) = StepText(TheSteps, i)

----------------------------------------------------------------------------
(* Properties of the two stages together *)

\* the run that answered succeeded for every step
AllSucceeded(res, ext) ==
    /\ Answered200(res)
    /\ res.urls = [p \in 1..N |-> PublicUrl("s1", p - 1, ext)]

\* C20: when the image run and the audio run have both completed, however
\* their steps interleaved, and every generation and upload succeeded, every
\* frame 0..N-1 has its imageUrl and its audioUrl.
C20_BothArtifacts ==
    (AllSucceeded(imgRes, "png") /\ AllSucceeded(audRes, "mp3")) =>
        /\ Len(TheFrames) = N
        /\ \A i \in 0..N - 1 :
             /\ HasUrl(FrameAt(TheFrames, i), "imageUrl")
             /\ FrameAt(TheFrames, i).imageUrl = PublicUrl("s1", i, "png")
             /\ HasUrl(FrameAt(TheFrames, i), "audioUrl")
             /\ FrameAt(TheFrames, i).audioUrl = PublicUrl("s1", i, "mp3")

\* C20 witness: both runs have answered with a URL for each of the two steps.
C20_Witness ==
    /\ N = 2
    /\ ~ImageRunning /\ ~AudioRunning
    /\ AllSucceeded(imgRes, "png")
    /\ AllSucceeded(audRes, "mp3")
    /\ \A i \in 0..1 : DOMAIN FrameAt(TheFrames, i) = {"text", "imageUrl", "audioUrl"}

----------------------------------------------------------------------------
(* Properties of the summary *)

\* succeeded of the summary `Generated ${succeeded}/${total}`
Succeeded(res) == Len(res.urls)

\* the URLs are of distinct steps, in index order
InIndexOrder(urls) ==
    \A p, q \in 1..Len(urls) : p < q => UrlIndex(urls[p]) < UrlIndex(urls[q])

\* the frame of each URL holds it in the field
WrittenTo(urls, field) ==
    \A p \in 1..Len(urls) :
        /\ UrlIndex(urls[p]) \in 0..N - 1
        /\ HasUrl(FrameAt(TheFrames, UrlIndex(urls[p])), field)
        /\ FrameAt(TheFrames, UrlIndex(urls[p]))[field] = urls[p]

C21_SummaryOfRun(res, field) ==
    Answered200(res) =>
        /\ res.total = N
        /\ 0 <= Succeeded(res) /\ Succeeded(res) <= res.total
        /\ InIndexOrder(res.urls)
        /\ WrittenTo(res.urls, field)

\* a run counts a step exactly in the step in which its upload returns and
\* the URL is in the frame; the summary is the count of the run
C21_Counting ==
    /\ (ImageRunning /\ ImageRunning') =>
         \/ img'.imageUrls = img.imageUrls
         \/ /\ img.pc = "upload"
            /\ img'.imageUrls = Append(img.imageUrls, PublicUrl("s1", img.i, "png"))
            /\ FrameAt(TheFrames', img.i).imageUrl = PublicUrl("s1", img.i, "png")
    /\ (ImageRunning /\ ~ImageRunning') =>
         \/ imgRes'.urls = img.imageUrls
         \/ /\ img.pc = "upload"
            /\ imgRes'.urls = Append(img.imageUrls, PublicUrl("s1", img.i, "png"))
            /\ FrameAt(TheFrames', img.i).imageUrl = PublicUrl("s1", img.i, "png")
    /\ (AudioRunning /\ AudioRunning') =>
         \/ aud'.audioUrls = aud.audioUrls
         \/ /\ aud.pc = "upload"
            /\ aud'.audioUrls = Append(aud.audioUrls, PublicUrl("s1", aud.i, "mp3"))
            /\ FrameAt(TheFrames', aud.i).audioUrl = PublicUrl("s1", aud.i, "mp3")
    /\ (AudioRunning /\ ~AudioRunning') =>
         \/ audRes'.urls = aud.audioUrls
         \/ /\ aud.pc = "upload"
            /\ audRes'.urls = Append(aud.audioUrls, PublicUrl("s1", aud.i, "mp3"))
            /\ FrameAt(TheFrames', aud.i).audioUrl = PublicUrl("s1", aud.i, "mp3")

\* C21: the summary of a stage has 0 <= succeeded <= total, total is the
\* number N of storyboard steps, and succeeded counts the steps for which
\* the run uploaded the artifact and wrote its URL into the frame.
C21_Summary ==
    /\ [](C21_SummaryOfRun(imgRes, "imageUrl") /\ C21_SummaryOfRun(audRes, "audioUrl"))
    /\ [][C21_Counting]_vars

\* C21 witness: of two steps the image run succeeded for step 1 only, the
\* audio run for none.
C21_Witness ==
    /\ N = 2
    /\ imgRes = StageResponse(<<PublicUrl("s1", 1, "png")>>, 2)
    /\ audRes = StageResponse(<<>>, 2)
    /\ ~HasUrl(FrameAt(TheFrames, 0), "imageUrl")
    /\ HasUrl(FrameAt(TheFrames, 1), "imageUrl")

----------------------------------------------------------------------------
(* Properties of the inter-step delay *)

\* the run has taken the delay of its step: it uploads for a step that is
\* not the last
DelayTaken == img.pc = "upload" /\ img.i < N - 1

\* the delay starts only when a generation of a step that is not the last
\* has just returned
C22_DelayStart ==
    (ImageActs /\ img'.pc = "delay") =>
        /\ img.pc = "gen"
        /\ img'.i = img.i
        /\ img.i < N - 1

\* C22 as stated: the delay is taken only after a step that succeeded and is
\* not the last; none is taken for a step that is skipped (exhausted
\* retries, rate-limit abort, upload failure).
C22_DelayAfterSuccess ==
    [][/\ C22_DelayStart
       /\ (DelayTaken /\ ImageLeavesStep) =>
            PublicUrl("s1", img.i, "png") \in ImageUploaded']_vars

\* C22 amended: the delay is taken after the generation of a step has given
\* an image, unless the step is the last, and before the upload; a step
\* that ends in exhausted retries or in a rate-limit abort takes none, while
\* a step whose upload fails has taken it.
C22_DelayAfterGeneration ==
    [][/\ C22_DelayStart
       /\ (ImageActs /\ img.pc = "delay") => (img'.pc = "upload" /\ img'.i = img.i)
       /\ (ImageActs /\ img'.pc = "upload") =>
            \/ img.pc = "delay"
            \/ img.pc = "gen" /\ img'.i = img.i /\ img.i = N - 1
       /\ (ImageLeavesStep /\ img.pc # "upload") => img.pc = "gen"]_vars

\* C22 witness: the second attempt of step 0 of 2 gave an image and the run
\* is in its delay.
C22_Witness ==
    /\ N = 2
    /\ img.pc = "delay" /\ img.i = 0 /\ img.attempt = 1

----------------------------------------------------------------------------
(* Properties of the submission flow *)

\* the step is the arrival of a stage request, the opening of the viewer
ImageTriggered == ~ImageRunning /\ ImageActs
AudioTriggered == ~AudioRunning /\ AudioActs
ViewerOpened == viewer.pc = "unmounted" /\ viewer'.pc # "unmounted"

\* the request has returned to the client
CreateSucceeded == create.pc = "done" /\ ResOk(create.res)
CreateFailed == create.res # NoResponse /\ ~ResOk(create.res)
ImageReturned == ~ImageRunning /\ imgRes # NoResponse
AudioReturned == ~AudioRunning /\ audRes # NoResponse

C23_Order ==
    /\ ImageTriggered =>
         /\ CreateSucceeded
         /\ \E variant \in ImageVariants : ImageStart(create.res.sessionId, variant)
    /\ AudioTriggered =>
         /\ CreateSucceeded /\ ImageReturned
         /\ AudioStart(create.res.sessionId)
    /\ ViewerOpened =>
         /\ CreateSucceeded /\ ImageReturned /\ AudioReturned
         /\ viewer'.sessionId = create.res.sessionId

\* after a failed creation nothing is triggered, and once handleSubmit is
\* over the error is shown
C23_NothingAfterFailure ==
    CreateFailed =>
        /\ ~ImageRunning /\ imgRes = NoResponse
        /\ ~AudioRunning /\ audRes = NoResponse
        /\ viewer.pc = "unmounted" /\ home.pushed = ""
        /\ home.pc \in {"creating", "idle"}
        /\ home.pc = "idle" => (home.error # "" /\ ~home.loading)

\* C23: the client triggers the image stage only after the creation has
\* succeeded, the audio stage only after the image-stage request has
\* returned, and opens the viewer only after the audio-stage request has
\* returned; after a failed creation it triggers nothing, opens no viewer
\* and shows an error.
C23_SubmissionOrder ==
    /\ []C23_NothingAfterFailure
    /\ [][C23_Order]_vars

\* C23 witness: the viewer has been opened on the created session after both
\* stage requests returned.
C23_Witness ==
    /\ CreateSucceeded /\ ImageReturned /\ AudioReturned
    /\ home.pushed = create.res.sessionId
    /\ viewer.pc # "unmounted"
    /\ viewer.sessionId = create.res.sessionId

\* a creation failed and the error is shown
C23_FailureShown ==
    /\ CreateFailed
    /\ home.pc = "idle"
    /\ home.error = "Claude output was not valid JSON"

----------------------------------------------------------------------------
(* C24: precondition errors *)

\* the request names a session the store does not have
UnknownSession(sessionId) ==
    IF InvalidSessionId(sessionId) THEN FALSE
    ELSE getSession(sessions, sessionId.value) = NoSession

\* the step started no external call and left the store as it was
StoreAndCallsUntouched ==
    /\ sessions' = sessions
    /\ img'.pc = "idle" /\ aud'.pc = "idle"
    /\ create'.pc \notin {"fetching", "generating"}

\* the step is this request to the image stage (to the audio stage, to
\* /api/tutorial)
ImageRequestTaken(method, sessionId, variant) ==
    /\ img.pc = "idle" /\ aud' = aud /\ create' = create
    /\ ImageRequest(method, sessionId, variant)

AudioRequestTaken(method, sessionId) ==
    /\ aud.pc = "idle" /\ img' = img /\ create' = create
    /\ AudioRequest(method, sessionId)

TutorialRequestTaken(method, sessionId, url) ==
    /\ create' # create /\ img' = img /\ aud' = aud
    /\ TutorialRequest(method, sessionId, url)

C24_ImageRequest ==
    \A method \in RequestMethods, sessionId \in RequestIds, variant \in ImageVariants :
        ImageRequestTaken(method, sessionId, variant) =>
            /\ method # "POST" => imgRes' = ErrorResponse(405) /\ StoreAndCallsUntouched
            /\ method = "POST" /\ InvalidSessionId(sessionId) =>
                  imgRes' = ErrorResponse(400) /\ StoreAndCallsUntouched
            /\ method = "POST" /\ UnknownSession(sessionId) =>
                  ~ResOk(imgRes') /\ StoreAndCallsUntouched

C24_AudioRequest ==
    \A method \in RequestMethods, sessionId \in RequestIds :
        AudioRequestTaken(method, sessionId) =>
            /\ method # "POST" => audRes' = ErrorResponse(405) /\ StoreAndCallsUntouched
            /\ method = "POST" /\ InvalidSessionId(sessionId) =>
                  audRes' = ErrorResponse(400) /\ StoreAndCallsUntouched
            /\ method = "POST" /\ UnknownSession(sessionId) =>
                  ~ResOk(audRes') /\ StoreAndCallsUntouched

C24_TutorialRequest ==
    \A method \in RequestMethods, sessionId \in RequestIds, url \in CreateUrls :
        TutorialRequestTaken(method, sessionId, url) =>
            /\ method \notin {"GET", "POST"} =>
                  create'.res.status = 405 /\ StoreAndCallsUntouched
            /\ method = "POST" /\ url = "" =>
                  create'.res.status = 400 /\ StoreAndCallsUntouched
            /\ method = "GET" /\ InvalidSessionId(sessionId) =>
                  create'.res.status = 400 /\ StoreAndCallsUntouched
            /\ method = "GET" /\ UnknownSession(sessionId) =>
                  ~ResOk(create'.res) /\ StoreAndCallsUntouched

\* C24: a request with a wrong verb is answered 405, one with a missing or
\* non-string sessionId or without a URL is answered 400, and in these cases
\* and for an unknown session the handler starts no external call and the
\* store stays as it was: no session is created, none is modified.
C24_PreconditionErrors ==
    [][C24_ImageRequest /\ C24_AudioRequest /\ C24_TutorialRequest]_vars

\* each endpoint has rejected a request (wrong verb, invalid sessionId,
\* missing URL), the store still holds the one untouched session
C24_Witness ==
    /\ imgRes = ErrorResponse(405)
    /\ audRes = ErrorResponse(400)
    /\ create.res = CreateError(400, "Missing URL")
    /\ sessions["s2"] = NoSession
    /\ sessions["s1"] # NoSession /\ sessions["s1"].frames = <<>>

----------------------------------------------------------------------------
(* C25: the recorded style and the injected instruction *)

\* the step records a session
Records(id) == sessions[id] = NoSession /\ sessions'[id] # NoSession

\* the style recorded by the step names the fragment the prompt was built with
RecordedStyleIsInjected ==
    \A id \in SessionIds :
        Records(id) => StyleHint(sessions'[id].style) = create.styleHint

\* C25: for every style value of a create request (the five named ones, any
\* other value, no value) the style recorded in the new session identifies
\* the instruction fragment that was injected into the generation prompt; a
\* request with no style is injected the generic fragment and recorded so.
C25_StyleRecorded ==
    [][\A assistantReply \in SubmitReplies :
          CreateReplyReturns(assistantReply) => RecordedStyleIsInjected]_vars

\* the same for the requests that give a style, named or not
C25_StyleRecordedWhenGiven ==
    [][\A assistantReply \in SubmitReplies :
          CreateReplyReturns(assistantReply) /\ create.style # NoStyle
              => RecordedStyleIsInjected]_vars

\* a request with no style has been injected the generic fragment
C25_NoStyleGenerating ==
    /\ create.pc = "generating"
    /\ create.style = NoStyle
    /\ create.styleHint = StyleHint("other")

\* a session recorded with a style the page does not offer
C25_OtherStyleRecorded ==
    \E id \in SessionIds : sessions[id] # NoSession /\ sessions[id].style = "other"

----------------------------------------------------------------------------
(* C26: what the stages and the read leave alone *)

\* a session that exists keeps its steps, its source URL and its style
KeepsCreationData ==
    \A id \in SessionIds :
        sessions[id] # NoSession =>
            /\ sessions'[id] # NoSession
            /\ sessions'[id].steps = sessions[id].steps
            /\ sessions'[id].url = sessions[id].url
            /\ sessions'[id].style = sessions[id].style

\* every session but the one of this id is as it was
OnlySessionChanged(sid) ==
    \A id \in SessionIds \ {sid} : sessions'[id] = sessions[id]

\* the request changes no session but the one it names
OnlyNamedChanged(sessionId) ==
    IF InvalidSessionId(sessionId) THEN sessions' = sessions
    ELSE OnlySessionChanged(sessionId.value)

C26_StageAndRead ==
    /\ KeepsCreationData
    /\ \A method \in RequestMethods, sessionId \in RequestIds :
         /\ (\E variant \in ImageVariants :
                ImageRequestTaken(method, sessionId, variant))
               => OnlyNamedChanged(sessionId)
         /\ AudioRequestTaken(method, sessionId) => OnlyNamedChanged(sessionId)
         /\ (\E url \in CreateUrls : TutorialRequestTaken("GET", sessionId, url))
               => sessions' = sessions
    /\ (ImageRunning /\ ImageStep) => OnlySessionChanged(img.sid)
    /\ (AudioRunning /\ AudioStep) => OnlySessionChanged(aud.sid)

\* C26: once a session is created, no image-stage run, audio-stage run or
\* session read changes its steps, source URL or style; these operations
\* change only the frames list, and only of the session whose id they got.
C26_OnlyFramesOfTarget == [][C26_StageAndRead]_vars

\* two sessions: both stages have written frames of the first, which was then
\* read, and the second is as it was created
C26_Witness ==
    /\ sessions["s1"] # NoSession /\ sessions["s2"] # NoSession
    /\ sessions["s2"].frames = <<>>
    /\ \E p \in 1..Len(sessions["s1"].frames) :
         /\ HasUrl(sessions["s1"].frames[p], "imageUrl")
         /\ HasUrl(sessions["s1"].frames[p], "audioUrl")
    /\ create.pc = "read" /\ Answered200(create.res)
    /\ create.res.data = sessions["s1"]

----------------------------------------------------------------------------
(* C27: the stage runs end *)

\* Every awaited call returns or throws and every timer fires: a run that
\* waits is resumed.  Each stage is requested once, at any time.
NextFair ==
    \/ /\ imgRes = NoResponse
       /\ \E sid \in SessionIds, variant \in ImageVariants : ImageStart(sid, variant)
    \/ ImageStep
    \/ /\ audRes = NoResponse
       /\ \E sid \in SessionIds : AudioStart(sid)
    \/ AudioStep

SpecFair == Init /\ [][NextFair]_vars /\ WF_vars(ImageStep) /\ WF_vars(AudioStep)

\* the steps of the session a run works on
ImageN == StepCount(getSession(sessions, img.sid))
AudioN == StepCount(getSession(sessions, aud.sid))

\* The generation calls of a run in the order they can be made: attempt a of
\* step i has rank 3 * i + a, and a run on N steps has the ranks 0..3N-1.
GenRank(run) == MaxAttempts * run.i + run.attempt

\* the step starts a generation call (an upload, a synthesis call)
NewGenCall == img'.pc = "gen" /\ img' # img
NewUpload == img'.pc = "upload" /\ img.pc # "upload"
NewTtsCall == aud'.pc = "tts" /\ aud' # aud

\* a run never holds a call outside its steps and attempts
C27_InRange ==
    /\ ImageRunning => img.i \in 0..ImageN - 1 /\ img.attempt \in 0..MaxAttempts - 1
    /\ AudioRunning => aud.i \in 0..AudioN - 1

\* every generation call of a run has a higher rank than the one before, and
\* every upload and every synthesis call is for a later step than the one
\* before: at most 3N generation calls, N uploads, one pass of the audio stage
C27_CallsRanked ==
    /\ (ImageRunning /\ NewGenCall) => GenRank(img') > GenRank(img)
    /\ (ImageRunning /\ ImageRunning') => img'.i >= img.i
    /\ (img.pc = "upload" /\ ImageRunning' /\ img' # img) => img'.i > img.i
    /\ NewUpload => img.pc \in {"gen", "delay"} /\ img'.i = img.i
    /\ (AudioRunning /\ NewTtsCall) => aud'.i = aud.i + 1
    /\ (AudioRunning /\ AudioRunning' /\ ~NewTtsCall) => aud'.i = aud.i

\* a run ends with its response, after its last step or at a rate-limit
\* failure of the image stage
C27_HowRunsEnd ==
    /\ (ImageRunning /\ ~ImageRunning') =>
          /\ Answered200(imgRes')
          /\ img.i = ImageN - 1 \/ (img'.rl = img.i /\ img.pc = "gen")
    /\ (AudioRunning /\ ~AudioRunning') =>
          /\ Answered200(audRes')
          /\ aud.i = AudioN - 1

\* C27: provided every external call returns or fails, every stage run on a
\* session of N steps responds: the image stage after at most 3N generation
\* calls and N uploads, the audio stage after one pass over the N steps; a
\* run ends by completing all steps or by the rate-limit short-circuit.
C27_StagesRespond ==
    /\ ImageRunning ~> (~ImageRunning /\ Answered200(imgRes))
    /\ AudioRunning ~> (~AudioRunning /\ Answered200(audRes))
    /\ []C27_InRange
    /\ [][C27_CallsRanked /\ C27_HowRunsEnd]_vars

\* an image run that used all three attempts of a step and went on has
\* responded, and so has an audio run
C27_Witness ==
    /\ ~ImageRunning /\ Answered200(imgRes) /\ imgRes.total = N /\ N > 1
    /\ Len(imgRes.urls) < N
    /\ img.rl = NoIndex
    /\ ~AudioRunning /\ Answered200(audRes)

----------------------------------------------------------------------------
(* C28: the indices and keys of the frame writes *)

\* the key {sessionId}/frame{i+1}.{ext} of frame index i
FrameKey(sid, i, ext) == <<sid, i + 1, ext>>

\* the frames of a session lie within its steps, and a URL stored in frame i
\* is the key {sessionId}/frame{i+1} of that stage
FramesWithinSteps(sid) ==
    LET session == getSession(sessions, sid) IN
    session # NoSession =>
        /\ Len(session.frames) <= StepCount(session)
        /\ \A p \in 1..Len(session.frames) :
             LET frame == session.frames[p] IN
             /\ HasUrl(frame, "imageUrl") => frame.imageUrl = FrameKey(sid, p - 1, "png")
             /\ HasUrl(frame, "audioUrl") => frame.audioUrl = FrameKey(sid, p - 1, "mp3")

\* an upload in flight is for a step of the session
UploadWithinSteps ==
    /\ img.pc = "upload" => img.i \in 0..ImageN - 1
    /\ aud.pc = "upload" => aud.i \in 0..AudioN - 1

\* the step is the rate-limit short-circuit of the image stage
ShortCircuit == img.pc = "gen" /\ ~ImageRunning' /\ img'.rl = img.i

\* the short-circuit uploads nothing and writes no frame
C28_ShortCircuitWritesNothing ==
    ShortCircuit =>
        /\ sessions' = sessions
        /\ Answered200(imgRes') /\ imgRes'.urls = img.imageUrls

\* C28: every frame write of a stage is at an index in 0..N-1 and every blob
\* key is {sessionId}/frame{i+1}.{ext} for the index i of the frame updated
\* with it; after the rate-limit short-circuit of the image stage no upload
\* and no frame update follows, so frames.length never exceeds N.
C28_WritesWithinSteps ==
    /\ [](UploadWithinSteps /\ \A sid \in SessionIds : FramesWithinSteps(sid))
    /\ [][C28_ShortCircuitWritesNothing]_vars

\* the image stage was rate limited at its first step of two and uploaded
\* nothing, the audio stage has written the last frame
C28_Witness ==
    /\ N = 2 /\ Len(TheFrames) = N
    /\ ~ImageRunning /\ img.rl = 0
    /\ Answered200(imgRes) /\ imgRes.urls = <<>>
    /\ HasUrl(FrameAt(TheFrames, N - 1), "audioUrl")
    /\ ~HasUrl(FrameAt(TheFrames, N - 1), "imageUrl")

----------------------------------------------------------------------------
(* C29, C30: the viewer while a rephrase is in flight, and its index *)

\* a rephrase request of the viewer is in flight
InFlight == viewer.req # "none"

\* in flight the flag is set and the index is the requested one; out of
\* flight the flag is clear
C29_FlagAndIndex ==
    /\ InFlight => viewer.loadingFrame /\ viewer.reqIndex = viewer.currentIndex
    /\ ~InFlight => ~viewer.loadingFrame

\* in flight the index stays and no second request is sent; the response is
\* applied to the requested frame only, and the flag is cleared after it
C29_WhileInFlight ==
    InFlight =>
        /\ viewer'.currentIndex = viewer.currentIndex
        /\ viewer'.req = "sent" => viewer' = viewer
        /\ viewer'.req = "none" =>
              /\ ~viewer'.loadingFrame
              /\ Len(viewer'.frames) = Len(viewer.frames)
              /\ \A p \in 1..Len(viewer.frames) :
                    p - 1 # viewer.reqIndex => viewer'.frames[p] = viewer.frames[p]

\* C29: in the viewer, while a rephrase request is in flight the current
\* index cannot change and no second rephrase can start, so the response is
\* applied to exactly the frame index that was requested; the in-flight flag
\* is cleared after every outcome (success, error response, exception).
C29_RephraseInFlight == []C29_FlagAndIndex /\ [][C29_WhileInFlight]_vars

\* a rephrase of a frame other than the first has been applied to it, and
\* the flag is clear
C29_Witness ==
    /\ ~InFlight /\ ~viewer.loadingFrame /\ viewer.alert = ""
    /\ viewer.currentIndex > 0 /\ viewer.reqIndex = viewer.currentIndex
    /\ HasUrl(FrameAt(viewer.frames, viewer.currentIndex), "audioUrl")
    /\ FrameAt(viewer.frames, viewer.currentIndex).audioUrl
          = RephraseUrl(viewer.sessionId, viewer.currentIndex)
    /\ FrameAt(viewer.frames, 0) = FrameAt(getSession(sessions, viewer.sessionId).frames, 0)

\* a rephrase has failed: alerted, the flag clear
C29_FailureCleared ==
    ~InFlight /\ ~viewer.loadingFrame /\ viewer.alert # "" /\ viewer.reqIndex # NoIndex

\* the index is one of the frames shown
C30_IndexInRange ==
    MainView => viewer.currentIndex \in 0..Len(viewer.frames) - 1

\* once loaded, the frame list keeps its length
C30_LengthKept ==
    viewer.pc = "ready" => Len(viewer'.frames) = Len(viewer.frames)

\* C30: in the viewer, once a non-empty frame list is loaded, the current
\* index stays within [0, frames.length) after any sequence of previous, next
\* and rephrase actions, and the number of frames shown never changes.
C30_IndexWithinFrames == []C30_IndexInRange /\ [][C30_LengthKept]_vars

\* the first frame was rephrased, then the viewer went on to the last frame
C30_Witness ==
    /\ MainView /\ ~InFlight
    /\ viewer.reqIndex = 0
    /\ isLast /\ viewer.currentIndex > 0

====
